---------------------------- MODULE Spec2Model ----------------------------
(***************************************************************************)
(* Model of the rule-based core of PredictiveAnalytics                     *)
(* (src/unnamed/part_001): the vital-sign classifiers, the risk            *)
(* assessors and calculateTrend.                                           *)
(*                                                                         *)
(* JavaScript numbers are IEEE 754 binary64 values.  The arithmetic of     *)
(* calculateTrend is modelled bit for bit: a number is a sign, a 53-bit    *)
(* significand and a binary exponent, and every +, -, * and / rounds to    *)
(* nearest, ties to even, as the language does.  Significands are held as  *)
(* little-endian sequences of 14-bit limbs so that no intermediate value   *)
(* leaves the range of the checker's integers.                             *)
(***************************************************************************)
EXTENDS Integers, Sequences, FiniteSets, TLC

(***************************************************************************)
(* State.                                                                  *)
(***************************************************************************)
VARIABLES
  healthThresholds,  \* this.healthThresholds of the PredictiveAnalytics instance
  reading,           \* the vital-sign reading handed to the classifiers
  classification,    \* the band (status) and risk returned for it
  series,              \* the series handed to calculateTrend
  trend,             \* the object calculateTrend returned for it
  returned,          \* per caller: the call it made last and what it got back
  fresh,             \* what each call returns on a newly constructed instance
  vitalSigns,        \* the vitalSigns object handed to analyzeCurrentVitals
  analysis,          \* the analysis object it returned
  nodeEnv,           \* process.env.NODE_ENV
  httpRequest,       \* req.path of the request being answered
  httpError,         \* the error passed to errorHandler, if any
  httpResponse,      \* what the handler sent as the response
  activeSessions,    \* this.activeSessions of the TelemedicineAgent instance
  sessionCalls,      \* per client: the call of the agent it has pending or made last
  chatRequest,       \* req.body of the chat request being answered
  chatCall,          \* the agent method the chat handler called and how the call ended
  chatReply,         \* what the chat handler sent as the response
  sockets,           \* per socket: its rooms, the user ids it sent with join, the event it got last
  monitor,           \* the health-monitor request being answered and its reply
  assessment,        \* the analyzeVitalSigns call under way: its stage and results
  workflowRun,       \* the workflow invocation under way: node reached, state, steps run
  isTyping,          \* isTyping of the HealthChat page
  inputMessage,      \* inputMessage, the characters in its text input
  isRecording,       \* isRecording, whether the voice recorder is open
  selectedFile,      \* selectedFile, the file picked last
  messages,          \* the length of messages, the conversation shown
  historyLoading,    \* isLoading of the chat history query
  inFlight           \* per kind: the requests sent and not yet settled

classifierVars ==
  <<healthThresholds, reading, classification, series, trend, returned, fresh>>
analysisVars == <<vitalSigns, analysis>>
errorVars == <<nodeEnv, httpRequest, httpError, httpResponse>>
sessionVars == <<activeSessions, sessionCalls>>
chatVars == <<chatRequest, chatCall, chatReply>>
socketVars == <<sockets, monitor>>
assessmentVars == <<assessment>>
workflowVars == <<workflowRun>>
pageVars ==
  <<isTyping, inputMessage, isRecording, selectedFile, messages,
    historyLoading, inFlight>>

vars ==
  <<classifierVars, analysisVars, errorVars, sessionVars, chatVars,
    socketVars, assessmentVars, workflowVars, pageVars>>

\* The variables outside each part of the program.
notClassifier ==
  <<analysisVars, errorVars, sessionVars, chatVars, socketVars,
    assessmentVars, workflowVars, pageVars>>
notAnalysis ==
  <<classifierVars, errorVars, sessionVars, chatVars, socketVars,
    assessmentVars, workflowVars, pageVars>>
notError ==
  <<classifierVars, analysisVars, sessionVars, chatVars, socketVars,
    assessmentVars, workflowVars, pageVars>>
notSession ==
  <<classifierVars, analysisVars, errorVars, chatVars, socketVars,
    assessmentVars, workflowVars, pageVars>>
notChat ==
  <<classifierVars, analysisVars, errorVars, sessionVars, socketVars,
    assessmentVars, workflowVars, pageVars>>
notChatNorSession ==
  <<classifierVars, analysisVars, errorVars, socketVars, assessmentVars,
    workflowVars, pageVars>>
notSocket ==
  <<classifierVars, analysisVars, errorVars, sessionVars, chatVars,
    assessmentVars, workflowVars, pageVars>>
notAssessment ==
  <<classifierVars, analysisVars, errorVars, sessionVars, chatVars,
    socketVars, workflowVars, pageVars>>
notWorkflow ==
  <<classifierVars, analysisVars, errorVars, sessionVars, chatVars,
    socketVars, assessmentVars, pageVars>>
notPage ==
  <<classifierVars, analysisVars, errorVars, sessionVars, chatVars,
    socketVars, assessmentVars, workflowVars>>

(***************************************************************************)
(* Natural numbers of arbitrary size: little-endian limbs, no leading      *)
(* (most significant) zero limb, zero is the empty sequence.               *)
(***************************************************************************)
LimbBits == 7 + 7
Limb == 2 ^ LimbBits

Min(a, b) == IF a <= b THEN a ELSE b

RECURSIVE Norm(_)
Norm(a) ==
  IF a = <<>> THEN <<>>
  ELSE IF a[Len(a)] = 0 THEN Norm(SubSeq(a, 1, Len(a) - 1))
  ELSE a

RECURSIVE BigOfNat(_)
BigOfNat(n) == IF n = 0 THEN <<>> ELSE <<n % Limb>> \o BigOfNat(n \div Limb)

RECURSIVE BAddC(_, _, _)
BAddC(a, b, c) ==
  IF a = <<>> /\ b = <<>> THEN (IF c = 0 THEN <<>> ELSE <<c>>)
  ELSE LET x == IF a = <<>> THEN 0 ELSE Head(a)
           y == IF b = <<>> THEN 0 ELSE Head(b)
           s == x + y + c
       IN  <<s % Limb>> \o BAddC(IF a = <<>> THEN a ELSE Tail(a),
                                 IF b = <<>> THEN b ELSE Tail(b),
                                 s \div Limb)

BAdd(a, b) == BAddC(a, b, 0)

\* a - b for a >= b
RECURSIVE BSubC(_, _, _)
BSubC(a, b, c) ==
  IF a = <<>> THEN <<>>
  ELSE LET y == IF b = <<>> THEN 0 ELSE Head(b)
           s == Head(a) - y - c
       IN  <<IF s < 0 THEN s + Limb ELSE s>>
             \o BSubC(Tail(a), IF b = <<>> THEN b ELSE Tail(b),
                      IF s < 0 THEN 1 ELSE 0)

BSub(a, b) == Norm(BSubC(a, b, 0))

\* -1, 0, 1 as a < b, a = b, a > b
RECURSIVE BCmpFrom(_, _, _)
BCmpFrom(a, b, i) ==
  IF i = 0 THEN 0
  ELSE IF a[i] < b[i] THEN -1
  ELSE IF a[i] > b[i] THEN 1
  ELSE BCmpFrom(a, b, i - 1)

BCmp(a, b) ==
  IF Len(a) < Len(b) THEN -1
  ELSE IF Len(a) > Len(b) THEN 1
  ELSE BCmpFrom(a, b, Len(a))

RECURSIVE BMulLimb(_, _, _)
BMulLimb(a, d, c) ==
  IF a = <<>> THEN (IF c = 0 THEN <<>> ELSE <<c>>)
  ELSE LET p == Head(a) * d + c
       IN  <<p % Limb>> \o BMulLimb(Tail(a), d, p \div Limb)

RECURSIVE BMul(_, _)
BMul(a, b) ==
  IF a = <<>> \/ b = <<>> THEN <<>>
  ELSE LET rest == BMul(a, Tail(b))
       IN  Norm(BAdd(BMulLimb(a, Head(b), 0),
                     IF rest = <<>> THEN <<>> ELSE <<0>> \o rest))

RECURSIVE SmallBitLen(_)
SmallBitLen(n) == IF n = 0 THEN 0 ELSE 1 + SmallBitLen(n \div 2)

BitLen(a) ==
  IF a = <<>> THEN 0 ELSE LimbBits * (Len(a) - 1) + SmallBitLen(a[Len(a)])

\* a * 2^k
Shl(a, k) ==
  IF a = <<>> THEN <<>>
  ELSE LET q == k \div LimbBits
           r == k % LimbBits
           n == Len(a)
           at(i) == IF i >= 1 /\ i <= n THEN a[i] ELSE 0
           moved == [i \in 1..(n + 1) |->
                       ((at(i) * (2 ^ r)) % Limb) + (at(i - 1) \div (2 ^ (LimbBits - r)))]
       IN  Norm([i \in 1..q |-> 0] \o moved)

\* floor(a / 2^k)
Shr(a, k) ==
  LET q == k \div LimbBits
      r == k % LimbBits
      n == Len(a)
  IN  IF q >= n THEN <<>>
      ELSE LET b == SubSeq(a, q + 1, n)
               m == Len(b)
               at(i) == IF i <= m THEN b[i] ELSE 0
           IN  Norm([i \in 1..m |->
                       (at(i) \div (2 ^ r)) + ((at(i + 1) % (2 ^ r)) * (2 ^ (LimbBits - r)))])

\* bit i (bit 0 the least significant) of a
Bit(a, i) ==
  LET q == i \div LimbBits
  IN  IF q >= Len(a) THEN 0 ELSE (a[q + 1] \div (2 ^ (i % LimbBits))) % 2

\* whether a mod 2^k is not zero
LowBitsSet(a, k) ==
  LET q == k \div LimbBits
      r == k % LimbBits
  IN  \/ \E i \in 1..Min(q, Len(a)) : a[i] # 0
      \/ (q < Len(a) /\ a[q + 1] % (2 ^ r) # 0)

(***************************************************************************)
(* A JavaScript number: [s, m, e] stands for (-1)^s * m * 2^e with m a     *)
(* significand of exactly Precision bits, or the number zero.  The values  *)
(* of the model stay far from the subnormal and the overflow range, and    *)
(* calculateTrend's divisor is not zero for two or more values, so NaN and *)
(* the infinities do not arise; -0 and +0, which every comparison of the   *)
(* code treats alike, are one value.                                       *)
(***************************************************************************)
Precision == 53

Zero == [s |-> 0, m |-> <<>>, e |-> 0]

IsZero(x) == x.m = <<>>

\* The number nearest to (-1)^s * (m + f) * 2^e, ties to even, where
\* 0 <= f < 1 and sticky says f > 0.
Round(s, m, e, sticky) ==
  IF m = <<>> THEN Zero
  ELSE LET len == BitLen(m)
       IN  IF len <= Precision
           THEN [s |-> s, m |-> Shl(m, Precision - len), e |-> e - (Precision - len)]
           ELSE LET k == len - Precision
                    q == Shr(m, k)
                    guard == Bit(m, k - 1) = 1
                    low == LowBitsSet(m, k - 1) \/ sticky
                    up == guard /\ (low \/ Bit(q, 0) = 1)
                    q2 == IF up THEN BAdd(q, <<1>>) ELSE q
                IN  IF BitLen(q2) > Precision
                    THEN [s |-> s, m |-> Shr(q2, 1), e |-> e + k + 1]
                    ELSE [s |-> s, m |-> q2, e |-> e + k]

Neg(x) == IF IsZero(x) THEN x ELSE [x EXCEPT !.s = 1 - x.s]

\* x + y
FAdd(x, y) ==
  IF IsZero(x) THEN y
  ELSE IF IsZero(y) THEN x
  ELSE LET e == Min(x.e, y.e)
           a == Shl(x.m, x.e - e)
           b == Shl(y.m, y.e - e)
           c == BCmp(a, b)
       IN  IF x.s = y.s THEN Round(x.s, BAdd(a, b), e, FALSE)
           ELSE IF c = 0 THEN Zero
           ELSE IF c > 0 THEN Round(x.s, BSub(a, b), e, FALSE)
           ELSE Round(y.s, BSub(b, a), e, FALSE)

\* x - y
FSub(x, y) == FAdd(x, Neg(y))

\* x * y
FMul(x, y) ==
  IF IsZero(x) \/ IsZero(y) THEN Zero
  ELSE Round((x.s + y.s) % 2, BMul(x.m, y.m), x.e + y.e, FALSE)

\* Long division, one quotient bit a step: from the quotient and remainder
\* qr so far, those of the dividend shifted left k more bits by d.
RECURSIVE DivBits(_, _, _)
DivBits(qr, d, k) ==
  IF k = 0 THEN qr
  ELSE LET r2 == BAdd(qr.r, qr.r)
           q2 == BAdd(qr.q, qr.q)
       IN  IF BCmp(r2, d) >= 0
           THEN DivBits([q |-> BAdd(q2, <<1>>), r |-> BSub(r2, d)], d, k - 1)
           ELSE DivBits([q |-> q2, r |-> r2], d, k - 1)

\* x / y for y # 0
FDiv(x, y) ==
  IF IsZero(x) THEN Zero
  ELSE LET first == BCmp(x.m, y.m) >= 0
           k == Precision + 3
           qr == DivBits([q |-> IF first THEN <<1>> ELSE <<>>,
                          r |-> IF first THEN BSub(x.m, y.m) ELSE x.m],
                         y.m, k)
       IN  Round((x.s + y.s) % 2, qr.q, x.e - y.e - k, qr.r # <<>>)

\* x < y
FLt(x, y) ==
  IF IsZero(x) THEN (~IsZero(y) /\ y.s = 0)
  ELSE IF IsZero(y) THEN x.s = 1
  ELSE IF x.s # y.s THEN x.s = 1
  ELSE LET below == \/ x.e < y.e
                    \/ (x.e = y.e /\ BCmp(x.m, y.m) < 0)
           above == \/ x.e > y.e
                    \/ (x.e = y.e /\ BCmp(x.m, y.m) > 0)
       IN  IF x.s = 0 THEN below ELSE above

FGt(x, y) == FLt(y, x)
FGe(x, y) == ~FLt(x, y)

\* The number an integer literal or an array index denotes.
Num(n) == IF n >= 0 THEN Round(0, BigOfNat(n), 0, FALSE)
          ELSE Round(1, BigOfNat(0 - n), 0, FALSE)

\* The number the decimal literal n/10^k denotes: a literal is read as the
\* number nearest to its exact value, which is the quotient rounded once.
Dec(n, k) == FDiv(Num(n), Num(10 ^ k))

(***************************************************************************)
(* PredictiveAnalytics: the band classifiers and the risk assessors.       *)
(* Blood pressure, heart rate and oxygen saturation readings are integers  *)
(* and are compared as such; a temperature is a decimal number and is      *)
(* compared as the language compares it, against the number each literal   *)
(* of the source denotes.                                                  *)
(***************************************************************************)
\* Variants of classifyBloodPressure with one slip each: the crisis test
\* asking for both limits, the labels of the two middle bands exchanged, the
\* lower limit of the elevated band excluded.
classifyBloodPressure_CrisisNeedsBoth(systolic, diastolic) ==
  IF systolic >= 180 /\ diastolic >= 120 THEN "crisis"
  ELSE IF systolic >= 130 \/ diastolic >= 80 THEN "high"
  ELSE IF systolic >= 120 /\ systolic < 130 /\ diastolic < 80 THEN "elevated"
  ELSE "normal"

classifyBloodPressure_SwappedLabels(systolic, diastolic) ==
  IF systolic >= 180 \/ diastolic >= 120 THEN "crisis"
  ELSE IF systolic >= 130 \/ diastolic >= 80 THEN "elevated"
  ELSE IF systolic >= 120 /\ systolic < 130 /\ diastolic < 80 THEN "high"
  ELSE "normal"

classifyBloodPressure_ElevatedAbove120(systolic, diastolic) ==
  IF systolic >= 180 \/ diastolic >= 120 THEN "crisis"
  ELSE IF systolic >= 130 \/ diastolic >= 80 THEN "high"
  ELSE IF systolic > 120 /\ systolic < 130 /\ diastolic < 80 THEN "elevated"
  ELSE "normal"

\* classifyBloodPressure with a range check put in front: a value outside
\* 0..300 sent to the most severe band.
classifyBloodPressure_RangeChecked(systolic, diastolic) ==
  IF systolic < 0 \/ systolic > 300 \/ diastolic < 0 \/ diastolic > 300 THEN "crisis"
  ELSE IF systolic >= 180 \/ diastolic >= 120 THEN "crisis"
  ELSE IF systolic >= 130 \/ diastolic >= 80 THEN "high"
  ELSE IF systolic >= 120 /\ systolic < 130 /\ diastolic < 80 THEN "elevated"
  ELSE "normal"

\* classifyBloodPressure without its elevated band.
classifyBloodPressure_NoElevatedBand(systolic, diastolic) ==
  IF systolic >= 180 \/ diastolic >= 120 THEN "crisis"
  ELSE IF systolic >= 130 \/ diastolic >= 80 THEN "high"
  ELSE "normal"

classifyBloodPressure(systolic, diastolic) ==
  IF systolic >= 180 \/ diastolic >= 120 THEN "crisis"
  ELSE IF systolic >= 130 \/ diastolic >= 80 THEN "high"
  ELSE IF systolic >= 120 /\ systolic < 130 /\ diastolic < 80 THEN "elevated"
  ELSE "normal"

\* classifyHeartRate with the lower limit taken inclusive.
classifyHeartRate_Inclusive(heartRate) ==
  IF heartRate <= 60 THEN "bradycardia"
  ELSE IF heartRate > 100 THEN "tachycardia"
  ELSE "normal"

\* classifyHeartRate keeping the band it worked out last and handing it back
\* to the next caller without looking at the argument.
classifyHeartRate_Memo(heartRate) ==
  IF \E c \in DOMAIN returned : returned[c].fn = "classifyHeartRate"
  THEN returned[CHOOSE c \in DOMAIN returned : returned[c].fn = "classifyHeartRate"].out
  ELSE IF heartRate < 60 THEN "bradycardia"
  ELSE IF heartRate > 100 THEN "tachycardia"
  ELSE "normal"

classifyHeartRate(heartRate) ==
  IF heartRate < 60 THEN "bradycardia"
  ELSE IF heartRate > 100 THEN "tachycardia"
  ELSE "normal"

\* The numbers the temperature literals of the source denote.
FeverFrom == Dec(991, 1)
HighFeverFrom == Dec(1031, 1)
ModerateFrom == Dec(1004, 1)
HighFrom == Num(103)
CriticalFrom == Num(105)

classifyTemperature(temperature) ==
  IF FGe(temperature, HighFeverFrom) THEN "highFever"
  ELSE IF FGe(temperature, FeverFrom) THEN "fever"
  ELSE "normal"

\* classifyOxygenSaturation with the critical limit taken inclusive.
classifyOxygenSaturation_CriticalAt90(spo2) ==
  IF spo2 <= 90 THEN "critical"
  ELSE IF spo2 < 95 THEN "low"
  ELSE "normal"

classifyOxygenSaturation(spo2) ==
  IF spo2 < 90 THEN "critical"
  ELSE IF spo2 < 95 THEN "low"
  ELSE "normal"

assessBloodPressureRisk(systolic, diastolic) ==
  IF systolic >= 180 \/ diastolic >= 120 THEN "critical"
  ELSE IF systolic >= 160 \/ diastolic >= 100 THEN "high"
  ELSE IF systolic >= 140 \/ diastolic >= 90 THEN "moderate"
  ELSE IF systolic >= 120 \/ diastolic >= 80 THEN "elevated"
  ELSE "low"

\* assessHeartRateRisk with the upper moderate limit taken inclusive.
assessHeartRateRisk_ModerateAt100(heartRate) ==
  IF heartRate < 40 \/ heartRate > 140 THEN "critical"
  ELSE IF heartRate < 50 \/ heartRate > 120 THEN "high"
  ELSE IF heartRate < 60 \/ heartRate >= 100 THEN "moderate"
  ELSE "low"

assessHeartRateRisk(heartRate) ==
  IF heartRate < 40 \/ heartRate > 140 THEN "critical"
  ELSE IF heartRate < 50 \/ heartRate > 120 THEN "high"
  ELSE IF heartRate < 60 \/ heartRate > 100 THEN "moderate"
  ELSE "low"

\* assessTemperatureRisk with the moderate limit taken exclusive.
assessTemperatureRisk_Exclusive(temperature) ==
  IF FGe(temperature, CriticalFrom) THEN "critical"
  ELSE IF FGe(temperature, HighFrom) THEN "high"
  ELSE IF FGt(temperature, ModerateFrom) THEN "moderate"
  ELSE "low"

assessTemperatureRisk(temperature) ==
  IF FGe(temperature, CriticalFrom) THEN "critical"
  ELSE IF FGe(temperature, HighFrom) THEN "high"
  ELSE IF FGe(temperature, ModerateFrom) THEN "moderate"
  ELSE "low"

assessOxygenRisk(spo2) ==
  IF spo2 < 85 THEN "critical"
  ELSE IF spo2 < 90 THEN "high"
  ELSE IF spo2 < 95 THEN "moderate"
  ELSE "low"

(***************************************************************************)
(* PredictiveAnalytics.calculateTrend.  data stands for data.map(d =>      *)
(* d[key]): each entry is null, undefined or a number.                     *)
(***************************************************************************)
Null == [type |-> "null"]
Undefined == [type |-> "undefined"]

IsNumber(v) == v # Null /\ v # Undefined

\* x.reduce((a, b) => a + b, 0) from entry i on, a the sum so far
RECURSIVE Sum(_, _, _)
Sum(x, i, a) == IF i > Len(x) THEN a ELSE Sum(x, i + 1, FAdd(a, x[i]))

\* x.reduce((sum, xi, i) => sum + xi * y[i], 0) from entry i on
RECURSIVE SumProduct(_, _, _, _)
SumProduct(x, y, i, sum) ==
  IF i > Len(x) THEN sum
  ELSE SumProduct(x, y, i + 1, FAdd(sum, FMul(x[i], y[i])))

Tenth == Dec(1, 1)

\* direction with the limit taken inclusive.
direction_Inclusive(slope) ==
  IF FGe(slope, Tenth) THEN "increasing"
  ELSE IF ~FGt(slope, Neg(Tenth)) THEN "decreasing"
  ELSE "stable"

direction(slope) ==
  IF FGt(slope, Tenth) THEN "increasing"
  ELSE IF FLt(slope, Neg(Tenth)) THEN "decreasing"
  ELSE "stable"

\* The least-squares slope of the values against their positions 0..n-1.
\* regressionSlope with the square of sumX left out of the divisor.
regressionSlope_DivisorSlip(values) ==
  LET n == Num(Len(values))
      x == [i \in 1..Len(values) |-> Num(i - 1)]
      y == values
      sumX == Sum(x, 1, Zero)
      sumY == Sum(y, 1, Zero)
      sumXY == SumProduct(x, y, 1, Zero)
      sumX2 == SumProduct(x, x, 1, Zero)
  IN  FDiv(FSub(FMul(n, sumXY), FMul(sumX, sumY)),
           FSub(FMul(n, sumX2), sumX))

\* The divisor of the slope for count values, n * sumX2 - sumX * sumX; and
\* the same with the two terms exchanged.
denominator_Exchanged(count) ==
  LET n == Num(count)
      x == [i \in 1..count |-> Num(i - 1)]
      sumX == Sum(x, 1, Zero)
      sumX2 == SumProduct(x, x, 1, Zero)
  IN  FSub(FMul(sumX, sumX), FMul(n, sumX2))

denominator(count) ==
  LET n == Num(count)
      x == [i \in 1..count |-> Num(i - 1)]
      sumX == Sum(x, 1, Zero)
      sumX2 == SumProduct(x, x, 1, Zero)
  IN  FSub(FMul(n, sumX2), FMul(sumX, sumX))

regressionSlope(values) ==
  LET n == Num(Len(values))
      x == [i \in 1..Len(values) |-> Num(i - 1)]
      y == values
      sumX == Sum(x, 1, Zero)
      sumY == Sum(y, 1, Zero)
      sumXY == SumProduct(x, y, 1, Zero)
  IN  FDiv(FSub(FMul(n, sumXY), FMul(sumX, sumY)), denominator(Len(values)))

\* calculateTrend with a change of 0 added to the result for too few values.
calculateTrend_DegenerateChange(data) ==
  LET values == SelectSeq(data, IsNumber)
  IN  IF Len(values) < 2
      THEN [direction |-> "stable", slope |-> Zero, change |-> Zero]
      ELSE LET slope == regressionSlope(values)
           IN  [direction |-> direction(slope),
                slope |-> slope,
                change |-> FSub(values[Len(values)], values[1])]

\* calculateTrend fitting each value against its position in data, gaps
\* counted, instead of its position among the values kept.
calculateTrend_RawIndex(data) ==
  LET kept == SelectSeq([i \in 1..Len(data) |-> i], LAMBDA i : IsNumber(data[i]))
      values == [i \in 1..Len(kept) |-> data[kept[i]]]
  IN  IF Len(values) < 2 THEN [direction |-> "stable", slope |-> Zero]
      ELSE LET n == Num(Len(values))
               x == [i \in 1..Len(values) |-> Num(kept[i] - 1)]
               y == values
               sumX == Sum(x, 1, Zero)
               sumY == Sum(y, 1, Zero)
               sumXY == SumProduct(x, y, 1, Zero)
               sumX2 == SumProduct(x, x, 1, Zero)
               slope == FDiv(FSub(FMul(n, sumXY), FMul(sumX, sumY)),
                             FSub(FMul(n, sumX2), FMul(sumX, sumX)))
           IN  [direction |-> direction(slope),
                slope |-> slope,
                change |-> FSub(values[Len(values)], values[1])]

calculateTrend(data) ==
  LET values == SelectSeq(data, IsNumber)
  IN  IF Len(values) < 2 THEN [direction |-> "stable", slope |-> Zero]
      ELSE LET slope == regressionSlope(values)
           IN  [direction |-> direction(slope),
                slope |-> slope,
                change |-> FSub(values[Len(values)], values[1])]

(***************************************************************************)
(* PredictiveAnalytics.initializeHealthThresholds: the table the           *)
(* constructor stores in this.healthThresholds.                            *)
(***************************************************************************)
initializeHealthThresholds ==
  [bloodPressure |->
     [normal   |-> [systolic |-> <<90, 120>>,  diastolic |-> <<60, 80>>],
      elevated |-> [systolic |-> <<120, 129>>, diastolic |-> <<60, 80>>],
      high     |-> [systolic |-> <<130, 180>>, diastolic |-> <<80, 120>>],
      crisis   |-> [systolic |-> <<180, 300>>, diastolic |-> <<120, 200>>]],
   heartRate |->
     [normal |-> <<60, 100>>, bradycardia |-> <<0, 60>>, tachycardia |-> <<100, 200>>],
   temperature |->
     [normal    |-> <<Dec(978, 1), Dec(990, 1)>>,
      fever     |-> <<Dec(991, 1), Dec(1030, 1)>>,
      highFever |-> <<Dec(1031, 1), Dec(1060, 1)>>],
   oxygenSaturation |->
     [normal |-> <<95, 100>>, low |-> <<90, 95>>, critical |-> <<0, 90>>]]

\* Bounds of the readings drawn.
BelowZero == 5
MaxSystolic == 310
MaxDiastolic == 305
MaxHeartRate == 220
MaxOxygen == 105
MinTenths == 950
MaxTenths == 1070

Systolics == (0 - BelowZero)..MaxSystolic
Diastolics == (0 - BelowZero)..MaxDiastolic

Readings ==
  {[vital |-> "bloodPressure", systolic |-> s, diastolic |-> d] :
     s \in Systolics, d \in Diastolics}
  \cup {[vital |-> "heartRate", value |-> v] : v \in (0 - BelowZero)..MaxHeartRate}
  \cup {[vital |-> "temperature", tenths |-> t] : t \in MinTenths..MaxTenths}
  \cup {[vital |-> "oxygenSaturation", value |-> v] : v \in (0 - BelowZero)..MaxOxygen}

NoReading == [vital |-> "none"]
NoResult == [status |-> "none"]
NoTrend == [direction |-> "none"]
NoCall == [fn |-> "none"]
NoVitalSigns == [type |-> "none"]
NoAnalysis == [type |-> "none"]
NoRequest == [type |-> "none"]
NoError == [type |-> "none"]
NoResponse == [type |-> "none"]
NoChat == [type |-> "none"]
NoEvent == [event |-> "none"]
NoMonitor == [type |-> "none"]
Idle == [stage |-> "idle"]

\* The parts of the program a specification leaves alone.
AnalysisIdle == vitalSigns = NoVitalSigns /\ analysis = NoAnalysis
RequestKinds == {"message", "voice", "file", "history"}
NoRequests == [kind \in RequestKinds |-> 0]
PageIdle ==
  /\ isTyping = FALSE /\ inputMessage = <<>> /\ isRecording = FALSE
  /\ selectedFile = Null /\ messages = 0 /\ historyLoading = TRUE
  /\ inFlight = NoRequests
WorkflowIdle == workflowRun = Idle
AssessmentIdle == assessment = Idle
SocketIdle == sockets = <<>> /\ monitor = NoMonitor
ChatIdle == chatRequest = NoRequest /\ chatCall = NoChat /\ chatReply = NoResponse
SessionIdle == activeSessions = <<>> /\ sessionCalls = <<>>
ErrorIdle == nodeEnv = "production" /\ httpRequest = NoRequest /\ httpError = NoError /\ httpResponse = NoResponse

(***************************************************************************)
(* One reading classified: the band and the risk of one vital sign, as     *)
(* analyzeCurrentVitals pairs them.                                        *)
(***************************************************************************)
ClassifyBloodPressure ==
  /\ reading.vital = "bloodPressure"
  /\ classification = NoResult
  /\ classification' =
       [status |-> classifyBloodPressure(reading.systolic, reading.diastolic),
        risk |-> assessBloodPressureRisk(reading.systolic, reading.diastolic)]
  /\ UNCHANGED <<healthThresholds, reading, series, trend, returned, fresh, notClassifier>>

ClassifyHeartRate ==
  /\ reading.vital = "heartRate"
  /\ classification = NoResult
  /\ classification' =
       [status |-> classifyHeartRate(reading.value),
        risk |-> assessHeartRateRisk(reading.value)]
  /\ UNCHANGED <<healthThresholds, reading, series, trend, returned, fresh, notClassifier>>

ClassifyTemperature ==
  /\ reading.vital = "temperature"
  /\ classification = NoResult
  /\ LET temperature == Dec(reading.tenths, 1)
     IN  classification' =
           [status |-> classifyTemperature(temperature),
            risk |-> assessTemperatureRisk(temperature)]
  /\ UNCHANGED <<healthThresholds, reading, series, trend, returned, fresh, notClassifier>>

ClassifyOxygenSaturation ==
  /\ reading.vital = "oxygenSaturation"
  /\ classification = NoResult
  /\ classification' =
       [status |-> classifyOxygenSaturation(reading.value),
        risk |-> assessOxygenRisk(reading.value)]
  /\ UNCHANGED <<healthThresholds, reading, series, trend, returned, fresh, notClassifier>>

VitalsInit ==
  /\ healthThresholds = initializeHealthThresholds
  /\ reading \in Readings
  /\ classification = NoResult
  /\ series = <<>>
  /\ trend = NoTrend
  /\ returned = <<>>
  /\ fresh = <<>>
  /\ AnalysisIdle
  /\ ErrorIdle
  /\ SessionIdle
  /\ ChatIdle
  /\ SocketIdle
  /\ AssessmentIdle
  /\ WorkflowIdle
  /\ PageIdle

VitalsNext ==
  \/ ClassifyBloodPressure
  \/ ClassifyHeartRate
  \/ ClassifyTemperature
  \/ ClassifyOxygenSaturation

SpecVitals == VitalsInit /\ [][VitalsNext]_vars

(***************************************************************************)
(* One series handed to calculateTrend.  The series drawn: every series of *)
(* up to MaxLen entries over null, undefined, 0, 1 and 0.1; the arithmetic *)
(* progressions of whole numbers and of tenths; the three series the       *)
(* specification works out.                                                *)
(***************************************************************************)
MaxLen == 4
MaxStart == 2
MaxStep == 2

Entries == {Null, Undefined, Num(0), Num(1), Dec(1, 1)}

FreeSeries == UNION {[1..n -> Entries] : n \in 0..MaxLen}

Progressions(k) ==
  {[i \in 1..n |-> Dec(a + (i - 1) * d, k)] :
     a \in 0..MaxStart, d \in (0 - MaxStep)..MaxStep, n \in 2..MaxLen}

Examples ==
  { <<Num(10), Num(20), Num(30)>>,
    <<Num(30), Num(20), Num(10)>>,
    <<Num(50), Num(50), Num(50), Num(50)>> }

Series == FreeSeries \cup Progressions(0) \cup Progressions(1) \cup Examples

CalculateTrend ==
  /\ trend = NoTrend
  /\ trend' = calculateTrend(series)
  /\ UNCHANGED <<healthThresholds, reading, classification, series, returned, fresh, notClassifier>>

TrendInit ==
  /\ healthThresholds = initializeHealthThresholds
  /\ reading = NoReading
  /\ classification = NoResult
  /\ series \in Series
  /\ trend = NoTrend
  /\ returned = <<>>
  /\ fresh = <<>>
  /\ AnalysisIdle
  /\ ErrorIdle
  /\ SessionIdle
  /\ ChatIdle
  /\ SocketIdle
  /\ AssessmentIdle
  /\ WorkflowIdle
  /\ PageIdle

TrendNext == CalculateTrend

SpecTrend == TrendInit /\ [][TrendNext]_vars

(***************************************************************************)
(* The one PredictiveAnalytics instance of the server, called by any of    *)
(* NumCallers callers in any order.  Each function runs to completion      *)
(* before the next call starts (the functions are synchronous), so a call  *)
(* is one step.                                                            *)
(***************************************************************************)
NumCallers == 2
Callers == 1..NumCallers

BloodPressureInputs == {<<125, 78>>, <<185, 70>>}
HeartRateInputs == {59, 60}
TemperatureInputs == {Dec(991, 1)}
OxygenInputs == {94}
TrendInputs == {<<Num(5)>>, <<Num(1), Null, Num(3)>>}

CallsOf(fn, inputs) == {[fn |-> fn, input |-> i] : i \in inputs}

Calls ==
  CallsOf("classifyBloodPressure", BloodPressureInputs)
  \cup CallsOf("assessBloodPressureRisk", BloodPressureInputs)
  \cup CallsOf("classifyHeartRate", HeartRateInputs)
  \cup CallsOf("assessHeartRateRisk", HeartRateInputs)
  \cup CallsOf("classifyTemperature", TemperatureInputs)
  \cup CallsOf("assessTemperatureRisk", TemperatureInputs)
  \cup CallsOf("classifyOxygenSaturation", OxygenInputs)
  \cup CallsOf("assessOxygenRisk", OxygenInputs)
  \cup CallsOf("calculateTrend", TrendInputs)

\* What the instance, in its present state, returns for a call.
Invoke(call) ==
  CASE call.fn = "classifyBloodPressure" ->
         classifyBloodPressure(call.input[1], call.input[2])
    [] call.fn = "assessBloodPressureRisk" ->
         assessBloodPressureRisk(call.input[1], call.input[2])
    [] call.fn = "classifyHeartRate" -> classifyHeartRate(call.input)
    [] call.fn = "assessHeartRateRisk" -> assessHeartRateRisk(call.input)
    [] call.fn = "classifyTemperature" -> classifyTemperature(call.input)
    [] call.fn = "assessTemperatureRisk" -> assessTemperatureRisk(call.input)
    [] call.fn = "classifyOxygenSaturation" -> classifyOxygenSaturation(call.input)
    [] call.fn = "assessOxygenRisk" -> assessOxygenRisk(call.input)
    [] call.fn = "calculateTrend" -> calculateTrend(call.input)

\* Caller c makes the call and gets its result back.
Return(c, call) ==
  /\ returned' = [returned EXCEPT
                    ![c] = [fn |-> call.fn, input |-> call.input, out |-> Invoke(call)]]
  /\ UNCHANGED <<healthThresholds, reading, classification, series, trend, fresh, notClassifier>>

CallClassifyBloodPressure(c) ==
  \E call \in CallsOf("classifyBloodPressure", BloodPressureInputs) : Return(c, call)

CallAssessBloodPressureRisk(c) ==
  \E call \in CallsOf("assessBloodPressureRisk", BloodPressureInputs) : Return(c, call)

CallClassifyHeartRate(c) ==
  \E call \in CallsOf("classifyHeartRate", HeartRateInputs) : Return(c, call)

CallAssessHeartRateRisk(c) ==
  \E call \in CallsOf("assessHeartRateRisk", HeartRateInputs) : Return(c, call)

CallClassifyTemperature(c) ==
  \E call \in CallsOf("classifyTemperature", TemperatureInputs) : Return(c, call)

CallAssessTemperatureRisk(c) ==
  \E call \in CallsOf("assessTemperatureRisk", TemperatureInputs) : Return(c, call)

CallClassifyOxygenSaturation(c) ==
  \E call \in CallsOf("classifyOxygenSaturation", OxygenInputs) : Return(c, call)

CallAssessOxygenRisk(c) ==
  \E call \in CallsOf("assessOxygenRisk", OxygenInputs) : Return(c, call)

CallCalculateTrend(c) ==
  \E call \in CallsOf("calculateTrend", TrendInputs) : Return(c, call)

Init ==
  /\ healthThresholds = initializeHealthThresholds
  /\ reading = NoReading
  /\ classification = NoResult
  /\ series = <<>>
  /\ trend = NoTrend
  /\ returned = [c \in Callers |-> NoCall]
  /\ fresh = [call \in Calls |-> Invoke(call)]
  /\ AnalysisIdle
  /\ ErrorIdle
  /\ SessionIdle
  /\ ChatIdle
  /\ SocketIdle
  /\ AssessmentIdle
  /\ WorkflowIdle
  /\ PageIdle

Next ==
  \E c \in Callers :
    \/ CallClassifyBloodPressure(c)
    \/ CallAssessBloodPressureRisk(c)
    \/ CallClassifyHeartRate(c)
    \/ CallAssessHeartRateRisk(c)
    \/ CallClassifyTemperature(c)
    \/ CallAssessTemperatureRisk(c)
    \/ CallClassifyOxygenSaturation(c)
    \/ CallAssessOxygenRisk(c)
    \/ CallCalculateTrend(c)

Spec == Init /\ [][Next]_vars

(***************************************************************************)
(* PredictiveAnalytics.analyzeCurrentVitals.  A field of vitalSigns is      *)
(* undefined (the key is absent) or holds a value: heartRate and            *)
(* oxygenSaturation a whole number, temperature a number, bloodPressure the *)
(* text "systolic/diastolic" of two whole numbers in decimal digits, which  *)
(* split('/').map(Number) takes apart into those two numbers.  A key of the *)
(* analysis object is undefined or holds the entry built for the vital.     *)
(***************************************************************************)
Whole(n) == [type |-> "number", value |-> n]
Decimal(tenths) == [type |-> "number", value |-> Dec(tenths, 1)]
Text(systolic, diastolic) ==
  [type |-> "string", systolic |-> systolic, diastolic |-> diastolic]

\* if (v): undefined and the number 0 are falsy, any other number and any
\* text of at least one character is truthy.
Truthy(v) ==
  CASE v.type = "undefined" -> FALSE
    [] v.type = "string" -> TRUE
    [] v.type = "number" -> v.value # 0

TruthyNumber(v) ==
  CASE v.type = "undefined" -> FALSE
    [] v.type = "number" -> ~IsZero(v.value)

analyzeCurrentVitals(vs) ==
  [bloodPressure |->
     IF Truthy(vs.bloodPressure)
     THEN [systolic |-> vs.bloodPressure.systolic,
           diastolic |-> vs.bloodPressure.diastolic,
           status |-> classifyBloodPressure(vs.bloodPressure.systolic,
                                            vs.bloodPressure.diastolic),
           risk |-> assessBloodPressureRisk(vs.bloodPressure.systolic,
                                            vs.bloodPressure.diastolic)]
     ELSE Undefined,
   heartRate |->
     IF Truthy(vs.heartRate)
     THEN [value |-> vs.heartRate.value,
           status |-> classifyHeartRate(vs.heartRate.value),
           risk |-> assessHeartRateRisk(vs.heartRate.value)]
     ELSE Undefined,
   temperature |->
     IF TruthyNumber(vs.temperature)
     THEN [value |-> vs.temperature.value,
           status |-> classifyTemperature(vs.temperature.value),
           risk |-> assessTemperatureRisk(vs.temperature.value)]
     ELSE Undefined,
   oxygenSaturation |->
     IF Truthy(vs.oxygenSaturation)
     THEN [value |-> vs.oxygenSaturation.value,
           status |-> classifyOxygenSaturation(vs.oxygenSaturation.value),
           risk |-> assessOxygenRisk(vs.oxygenSaturation.value)]
     ELSE Undefined]

\* The vitalSigns objects drawn: each key absent or holding one of a few
\* values, zero and a negative value among them.
BloodPressureFields == {Undefined, Text(118, 76), Text(150, 95), Text(185, 70)}
HeartRateFields == {Undefined} \cup {Whole(n) : n \in {0 - 1, 0, 35, 55, 72, 130, 150}}
TemperatureFields ==
  {Undefined} \cup {Decimal(t) : t \in {0 - 10, 0, 986, 1004, 1035, 1050}}
OxygenFields == {Undefined} \cup {Whole(n) : n \in {0 - 1, 0, 88, 92, 97}}

VitalSigns ==
  [bloodPressure : BloodPressureFields, heartRate : HeartRateFields,
   temperature : TemperatureFields, oxygenSaturation : OxygenFields]

AnalyzeCurrentVitals ==
  /\ analysis = NoAnalysis
  /\ analysis' = analyzeCurrentVitals(vitalSigns)
  /\ UNCHANGED <<vitalSigns, notAnalysis>>

ClassifierIdle ==
  /\ healthThresholds = initializeHealthThresholds
  /\ reading = NoReading
  /\ classification = NoResult
  /\ series = <<>>
  /\ trend = NoTrend
  /\ returned = <<>>
  /\ fresh = <<>>

AnalysisInit ==
  /\ vitalSigns \in VitalSigns
  /\ analysis = NoAnalysis
  /\ ClassifierIdle
  /\ ErrorIdle
  /\ SessionIdle
  /\ ChatIdle
  /\ SocketIdle
  /\ AssessmentIdle
  /\ WorkflowIdle
  /\ PageIdle

AnalysisNext == AnalyzeCurrentVitals

SpecAnalysis == AnalysisInit /\ [][AnalysisNext]_vars

(***************************************************************************)
(* PredictiveAnalytics.analyzeVitalSigns.  The call analyses the vital     *)
(* signs, reads the historical data, computes the trends, asks the         *)
(* language model for risk predictions and then for recommendations, and   *)
(* returns all of it with the urgency.  A reply of the language model is   *)
(* a sequence of lines, a line the set of the words looked for that it     *)
(* holds: line.toLowerCase().includes(word) is word \in line.  A call of   *)
(* the language model can fail; predictHealthRisks and                     *)
(* generateHealthRecommendations catch that and return a fallback.         *)
(***************************************************************************)
includes(line, words) == line \cap words # {}

\* content.toLowerCase().includes(word) for one of the words, over all lines
contentIncludes(content, words) == \E i \in DOMAIN content : includes(content[i], words)

linesWith(content, words) == SelectSeq(content, LAMBDA line : includes(line, words))

assessSeverity(line) ==
  IF includes(line, {"critical", "severe"}) THEN "critical"
  ELSE IF includes(line, {"high", "serious"}) THEN "high"
  ELSE IF includes(line, {"moderate", "medium"}) THEN "moderate"
  ELSE "low"

extractRisks(content, words, timeframe) ==
  LET lines == linesWith(content, words)
  IN  [i \in DOMAIN lines |->
         [description |-> lines[i], severity |-> assessSeverity(lines[i]),
          timeframe |-> timeframe]]

extractShortTermRisks(content) ==
  extractRisks(content, {"short-term", "24-48 hours"}, "24-48 hours")
extractMediumTermRisks(content) == extractRisks(content, {"medium-term", "week"}, "1 week")
extractLongTermRisks(content) == extractRisks(content, {"long-term", "month"}, "1 month")
extractConditions(content) == linesWith(content, {"condition", "disease"})

extractProbability(content) ==
  IF contentIncludes(content, {"high", "likely"}) THEN "high"
  ELSE IF contentIncludes(content, {"moderate", "possible"}) THEN "moderate"
  ELSE "low"

\* predictHealthRisks: what it returns for a reply, and its catch branch.
predictHealthRisks(content) ==
  [shortTerm |-> extractShortTermRisks(content),
   mediumTerm |-> extractMediumTermRisks(content),
   longTerm |-> extractLongTermRisks(content),
   conditions |-> extractConditions(content),
   probability |-> extractProbability(content)]

predictHealthRisksFallback ==
  [shortTerm |-> <<>>, mediumTerm |-> <<>>, longTerm |-> <<>>, conditions |-> <<>>,
   probability |-> "low"]

\* generateHealthRecommendations: what it returns for a reply, and its catch
\* branch.
generateHealthRecommendations(content) ==
  [immediate |-> linesWith(content, {"immediate", "urgent"}),
   lifestyle |-> linesWith(content, {"lifestyle", "diet", "exercise"}),
   medical |-> linesWith(content, {"medical", "doctor", "consult"}),
   monitoring |-> linesWith(content, {"monitor", "track", "check"}),
   emergency |-> linesWith(content, {"emergency", "urgent", "call"})]

generateHealthRecommendationsFallback ==
  [immediate |-> <<>>, lifestyle |-> <<>>, medical |-> <<>>, monitoring |-> <<>>,
   emergency |-> <<>>]

\* assessUrgency with the predictions looked at before the vital signs.
assessUrgency_PredictionsFirst(vitalAnalysis, riskPredictions) ==
  LET risks == {vitalAnalysis[k].risk :
                  k \in {j \in DOMAIN vitalAnalysis : vitalAnalysis[j] # Undefined}}
      highRiskPredictions ==
        \E i \in DOMAIN riskPredictions.shortTerm :
          riskPredictions.shortTerm[i].severity \in {"high", "critical"}
  IN  IF highRiskPredictions THEN "urgent"
      ELSE IF "critical" \in risks THEN "emergency"
      ELSE IF "high" \in risks THEN "moderate"
      ELSE "routine"

\* Object.values(vitalAnalysis) are the entries of the keys that are there.
assessUrgency(vitalAnalysis, riskPredictions) ==
  LET risks == {vitalAnalysis[k].risk :
                  k \in {j \in DOMAIN vitalAnalysis : vitalAnalysis[j] # Undefined}}
      criticalVitals == "critical" \in risks
      highRiskPredictions ==
        \E i \in DOMAIN riskPredictions.shortTerm :
          riskPredictions.shortTerm[i].severity \in {"high", "critical"}
      moderateRisks == "high" \in risks
  IN  IF criticalVitals THEN "emergency"
      ELSE IF highRiskPredictions THEN "urgent"
      ELSE IF moderateRisks THEN "moderate"
      ELSE "routine"

\* getHistoricalData returns the same three series for every user.
getHistoricalData ==
  [bloodPressure |-> <<Num(120), Num(118), Num(122)>>,
   heartRate |-> <<Num(72), Num(75), Num(70)>>,
   temperature |-> <<Dec(986, 1), Dec(984, 1), Dec(988, 1)>>]

\* analyzeTrends: a trend for each series of more than one entry.
analyzeTrends(historicalData) ==
  [k \in DOMAIN historicalData |->
     IF Len(historicalData[k]) > 1 THEN calculateTrend(historicalData[k]) ELSE Undefined]

trends == analyzeTrends(getHistoricalData)

\* analyzeCurrentVitals reads the keys of vitalSigns and splits the blood
\* pressure: it throws a TypeError when vitalSigns is undefined, and when
\* the blood pressure is a number other than 0, which has no split.
analyzeCurrentVitalsThrows(vs) ==
  IF vs = Undefined THEN TRUE
  ELSE vs.bloodPressure.type = "number" /\ vs.bloodPressure.value # 0

\* The arguments and the replies drawn.
AssessedVitalSigns ==
  [bloodPressure : {Undefined, Text(118, 76), Text(165, 70), Text(185, 70)},
   heartRate : {Undefined, Whole(72), Whole(130)},
   temperature : {Undefined, Decimal(1035)},
   oxygenSaturation : {Undefined, Whole(0)}]
    \cup {Undefined,
          [bloodPressure |-> Whole(120), heartRate |-> Whole(72),
           temperature |-> Undefined, oxygenSaturation |-> Undefined]}

MaxRiskLines == 1
MaxAdviceLines == 1
RiskWords == {"short-term", "week", "critical", "high"}
AdviceWords == {"immediate"}
RiskContents == UNION {[1..n -> SUBSET RiskWords] : n \in 0..MaxRiskLines}
AdviceContents == UNION {[1..n -> SUBSET AdviceWords] : n \in 0..MaxAdviceLines}

\* analyzeVitalSigns up to the await in predictHealthRisks, or to its catch.
AnalyzeVitalSigns(vs) ==
  /\ assessment = Idle
  /\ assessment' =
       IF analyzeCurrentVitalsThrows(vs)
       THEN [stage |-> "thrown", vitalSigns |-> vs,
             message |-> "Failed to analyze vital signs"]
       ELSE [stage |-> "predicting", vitalSigns |-> vs,
             vitalAnalysis |-> analyzeCurrentVitals(vs), trends |-> trends]
  /\ UNCHANGED notAssessment

Predicted(riskPredictions, failed) ==
  /\ assessment.stage = "predicting"
  /\ assessment' =
       [stage |-> "recommending", vitalSigns |-> assessment.vitalSigns,
        vitalAnalysis |-> assessment.vitalAnalysis, trends |-> assessment.trends,
        riskPredictions |-> riskPredictions, predictFailed |-> failed]
  /\ UNCHANGED notAssessment

\* The language model replies, or the call fails and the catch block of
\* predictHealthRisks returns the fallback.
PredictHealthRisks(content) == Predicted(predictHealthRisks(content), FALSE)
\* predictHealthRisks without its try/catch: the failure of the language
\* model ends analyzeVitalSigns in its own catch block.
PredictHealthRisksFails_Uncaught ==
  /\ assessment.stage = "predicting"
  /\ assessment' = [stage |-> "thrown", vitalSigns |-> assessment.vitalSigns,
                    message |-> "Failed to analyze vital signs"]
  /\ UNCHANGED notAssessment

PredictHealthRisksFails == Predicted(predictHealthRisksFallback, TRUE)

Recommended(recommendations, failed) ==
  /\ assessment.stage = "recommending"
  /\ assessment' =
       [stage |-> "returned", vitalSigns |-> assessment.vitalSigns,
        predictFailed |-> assessment.predictFailed, recommendFailed |-> failed,
        result |->
          [currentStatus |-> assessment.vitalAnalysis,
           trends |-> assessment.trends,
           riskPredictions |-> assessment.riskPredictions,
           recommendations |-> recommendations,
           urgency |-> assessUrgency(assessment.vitalAnalysis,
                                     assessment.riskPredictions)]]
  /\ UNCHANGED notAssessment

GenerateHealthRecommendations(content) ==
  Recommended(generateHealthRecommendations(content), FALSE)
GenerateHealthRecommendationsFails ==
  Recommended(generateHealthRecommendationsFallback, TRUE)

AssessmentInit ==
  /\ assessment = Idle
  /\ ClassifierIdle
  /\ AnalysisIdle
  /\ ErrorIdle
  /\ SessionIdle
  /\ ChatIdle
  /\ SocketIdle
  /\ WorkflowIdle
  /\ PageIdle

AssessmentNext ==
  \/ \E vs \in AssessedVitalSigns : AnalyzeVitalSigns(vs)
  \/ \E content \in RiskContents : PredictHealthRisks(content)
  \/ PredictHealthRisksFails
  \/ \E content \in AdviceContents : GenerateHealthRecommendations(content)
  \/ GenerateHealthRecommendationsFails

SpecAssessment == AssessmentInit /\ [][AssessmentNext]_vars

(***************************************************************************)
(* middleware/errorHandler.js: errorHandler, and the GET /health route of  *)
(* server.js.  An error object has a name, and may have a code (a number   *)
(* or a text), a status, a statusCode, a message and, as the validation    *)
(* errors of the database layer have, an errors object holding one error   *)
(* with a message per field.  A request path is the sequence of its        *)
(* segments: "/health" is <<"health">>, "/api/chat" is <<"api", "chat">>.  *)
(* A response is what res.status(..).json(..) sent, less the time stamp    *)
(* and the text of the stack; a handler can also end by throwing.          *)
(***************************************************************************)
Str(text) == [type |-> "string", text |-> text]

\* if (v) for a text or undefined: the empty text and undefined are falsy.
TruthyText(v) == v.type = "string" /\ v.text # ""

\* Object.values(err.errors).map(val => val.message).join(', ')
RECURSIVE joinMessages(_)
joinMessages(list) ==
  IF list = <<>> THEN ""
  ELSE IF Len(list) = 1 THEN list[1]
  ELSE list[1] \o ", " \o joinMessages(Tail(list))

Sent(status, body) == [type |-> "sent", status |-> status, body |-> body]
Thrown(name) == [type |-> "thrown", name |-> name]

\* The rules of errorHandler in the order of the source; each one that
\* holds replaces error by its message and statusCode.
ErrorRules(e) ==
  << [holds |-> e.name = "CastError", message |-> "Resource not found", statusCode |-> 404],
     [holds |-> e.code = Whole(11000),
      message |-> "Duplicate field value entered", statusCode |-> 400],
     [holds |-> e.name = "ValidationError",
      message |-> IF e.name = "ValidationError" THEN joinMessages(e.errors.messages) ELSE "",
      statusCode |-> 400],
     [holds |-> e.name = "JsonWebTokenError", message |-> "Invalid token", statusCode |-> 401],
     [holds |-> e.name = "TokenExpiredError", message |-> "Token expired", statusCode |-> 401],
     [holds |-> e.code = Str("openai_api_error"),
      message |-> "AI service temporarily unavailable", statusCode |-> 503],
     [holds |-> e.code = Str("LIMIT_FILE_SIZE"), message |-> "File too large", statusCode |-> 400],
     [holds |-> e.code = Str("LIMIT_UNEXPECTED_FILE"),
      message |-> "Unexpected file field", statusCode |-> 400],
     [holds |-> e.status = Whole(429),
      message |-> "Too many requests, please try again later", statusCode |-> 429],
     [holds |-> e.code = Str("ECONNREFUSED"),
      message |-> "Service temporarily unavailable", statusCode |-> 503] >>

errorHandler(e, path, development) ==
  IF e.name = "ValidationError" /\ e.errors = Undefined
  THEN Thrown("TypeError")   \* Object.values(undefined)
  ELSE
    LET rules == ErrorRules(e)
        matching == {i \in DOMAIN rules : rules[i].holds}
        last == CHOOSE i \in matching : \A j \in matching : j <= i
        error == IF matching = {}
                 THEN [message |-> e.message, statusCode |-> e.statusCode]
                 ELSE [message |-> Str(rules[last].message),
                       statusCode |-> Whole(rules[last].statusCode)]
        statusCode == IF Truthy(error.statusCode) THEN error.statusCode.value
                      ELSE IF Truthy(e.statusCode) THEN e.statusCode.value
                      ELSE 500
        message == IF TruthyText(error.message) THEN error.message.text
                   ELSE "Server Error"
    IN  IF path = <<"health">>
        THEN Sent(200, [status |-> "unhealthy", error |-> message])
        ELSE IF Len(path) >= 2 /\ path[1] = "api"
        THEN Sent(statusCode, [success |-> FALSE, error |-> message, stack |-> development])
        ELSE Sent(statusCode, [success |-> FALSE, error |-> message])

\* The errors and the requests drawn.
ErrorNames ==
  {"Error", "CastError", "ValidationError", "JsonWebTokenError", "TokenExpiredError"}
ErrorCodes ==
  {Undefined, Whole(11000), Str("openai_api_error"), Str("LIMIT_FILE_SIZE"),
   Str("LIMIT_UNEXPECTED_FILE"), Str("ECONNREFUSED")}
ErrorStatuses == {Undefined, Whole(400), Whole(429)}
ErrorStatusCodes == {Undefined, Whole(0), Whole(404), Whole(418)}
ErrorMessages == {Undefined, Str(""), Str("boom")}
ErrorObjects ==
  {Undefined, [type |-> "object", messages |-> <<>>],
   [type |-> "object", messages |-> <<"name is required", "age must be positive">>]}

Errors ==
  [type : {"error"}, name : ErrorNames, code : ErrorCodes, status : ErrorStatuses,
   statusCode : ErrorStatusCodes, message : ErrorMessages, errors : ErrorObjects]

Paths == {<<"health">>, <<"api", "chat">>, <<"api">>, <<"dashboard">>, <<>>}

\* GET /health without an error on the way: res.json on a new response,
\* whose status is 200.
GetHealth ==
  /\ httpRequest = <<"health">>
  /\ httpError = NoError
  /\ httpResponse = NoResponse
  /\ httpResponse' =
       Sent(200, [status |-> "healthy", service |-> "SwasthyaSetu AI Healthcare Platform",
                  version |-> "1.0.0"])
  /\ UNCHANGED <<nodeEnv, httpRequest, httpError, notError>>

\* An error raised on the way of a request reaches errorHandler.
ErrorHandler ==
  /\ httpError # NoError
  /\ httpResponse = NoResponse
  /\ httpResponse' = errorHandler(httpError, httpRequest, nodeEnv = "development")
  /\ UNCHANGED <<nodeEnv, httpRequest, httpError, notError>>

ErrorInit ==
  /\ nodeEnv \in {"development", "production"}
  /\ \/ httpRequest \in Paths /\ httpError \in Errors
     \/ httpRequest = <<"health">> /\ httpError = NoError
  /\ httpResponse = NoResponse
  /\ ClassifierIdle
  /\ AnalysisIdle
  /\ SessionIdle
  /\ ChatIdle
  /\ SocketIdle
  /\ AssessmentIdle
  /\ WorkflowIdle
  /\ PageIdle

ErrorNext == GetHealth \/ ErrorHandler

SpecError == ErrorInit /\ [][ErrorNext]_vars

(***************************************************************************)
(* TelemedicineAgent: the activeSessions map and the operations on it.     *)
(* A session is {userId, status} and, once somebody joined, participants;  *)
(* its times and its workflow data are left out.  Clients call the         *)
(* operations; a call that awaits the language model (the workflow of      *)
(* processTelemedicineRequest, the summary of endSession) is pending from  *)
(* the step that starts it to the step in which the model answers or       *)
(* fails, and other calls run in between.  generateSessionId joins the     *)
(* time in milliseconds and nine random digits: an id not given out        *)
(* before.                                                                 *)
(***************************************************************************)
Clients == {"client_1", "client_2"}
SessionIds == {"session_1", "session_2"}
UserIds == {"patient_1", "doctor_1"}
Participants ==
  {[userId |-> "patient_1", userType |-> "patient"],
   [userId |-> "doctor_1", userType |-> "doctor"]}
MaxParticipants == 1

Array(items) == [type |-> "array", items |-> items]

\* this.activeSessions.set(sessionId, {userId, startTime, status: 'active', data})
activeSessionsSet(sessions, sessionId, userId) ==
  [id \in DOMAIN sessions \cup {sessionId} |->
     IF id = sessionId
     THEN [userId |-> userId, status |-> "active", participants |-> Undefined]
     ELSE sessions[id]]

\* session.participants || []
participantsOf(session) ==
  IF session.participants = Undefined THEN <<>> ELSE session.participants.items

\* joinSession with the participant pushed onto every session of the map.
pushParticipant_EverySession(sessions, sessionId, participant) ==
  [id \in DOMAIN sessions |->
     [sessions[id] EXCEPT
        !.participants = Array(Append(participantsOf(sessions[id]), participant))]]

\* session.participants = session.participants || []; session.participants.push(..)
pushParticipant(sessions, sessionId, participant) ==
  [sessions EXCEPT
     ![sessionId].participants =
        Array(Append(participantsOf(sessions[sessionId]), participant))]

\* endSession with the session taken out of the map once it is ended.
markEnded_Evict(sessions, sessionId) ==
  [id \in DOMAIN sessions \ {sessionId} |-> sessions[id]]

\* session.status = 'ended'
markEnded(sessions, sessionId) ==
  [sessions EXCEPT ![sessionId].status = "ended"]

Free(c) == sessionCalls[c].stage \in {"idle", "done"}
Pending(c, op) == sessionCalls[c].stage = "pending" /\ sessionCalls[c].op = op

Returns(c, op, sessionId) ==
  sessionCalls' = [sessionCalls EXCEPT
    ![c] = [stage |-> "done", op |-> op, outcome |-> "returned", sessionId |-> sessionId]]

Throws(c, op, sessionId, message) ==
  sessionCalls' = [sessionCalls EXCEPT
    ![c] = [stage |-> "done", op |-> op, outcome |-> "thrown", sessionId |-> sessionId,
            message |-> message]]

Awaits(c, op, sessionId, userId) ==
  sessionCalls' = [sessionCalls EXCEPT
    ![c] = [stage |-> "pending", op |-> op, sessionId |-> sessionId, userId |-> userId]]

\* The ids generateSessionId has given out.
GivenOut ==
  DOMAIN activeSessions
    \cup {sessionCalls[c].sessionId :
            c \in {d \in Clients : /\ sessionCalls[d].stage # "idle"
                                   /\ sessionCalls[d].op = "processTelemedicineRequest"}}

\* processTelemedicineRequest up to its first await.
ProcessTelemedicineRequest(c, userId) ==
  /\ Free(c)
  /\ \E sessionId \in SessionIds \ GivenOut :
        Awaits(c, "processTelemedicineRequest", sessionId, userId)
  /\ UNCHANGED <<activeSessions, notSession>>

\* The details are extracted and the workflow has run: the session is stored.
ProcessTelemedicineStores(c) ==
  /\ Pending(c, "processTelemedicineRequest")
  /\ activeSessions' =
       activeSessionsSet(activeSessions, sessionCalls[c].sessionId, sessionCalls[c].userId)
  /\ Returns(c, "processTelemedicineRequest", sessionCalls[c].sessionId)
  /\ UNCHANGED notSession

\* processTelemedicineRequest with the session stored before the workflow ran.
ProcessTelemedicineFails_Registered(c) ==
  /\ Pending(c, "processTelemedicineRequest")
  /\ activeSessions' =
       activeSessionsSet(activeSessions, sessionCalls[c].sessionId, sessionCalls[c].userId)
  /\ Throws(c, "processTelemedicineRequest", sessionCalls[c].sessionId,
            "Failed to process telemedicine request")
  /\ UNCHANGED notSession

\* The extraction or a step of the workflow fails.
ProcessTelemedicineFails(c) ==
  /\ Pending(c, "processTelemedicineRequest")
  /\ Throws(c, "processTelemedicineRequest", sessionCalls[c].sessionId,
            "Failed to process telemedicine request")
  /\ UNCHANGED <<activeSessions, notSession>>

\* joinSession: no await in its body, one step.
JoinSession(c, sessionId, participant) ==
  /\ Free(c)
  /\ IF sessionId \notin DOMAIN activeSessions
     THEN /\ Throws(c, "joinSession", sessionId, "Failed to join session")
          /\ UNCHANGED activeSessions
     ELSE /\ Len(participantsOf(activeSessions[sessionId])) < MaxParticipants
          /\ activeSessions' = pushParticipant(activeSessions, sessionId, participant)
          /\ Returns(c, "joinSession", sessionId)
  /\ UNCHANGED notSession

\* endSession up to its await of generateSessionSummary.
EndSession(c, sessionId) ==
  /\ Free(c)
  /\ IF sessionId \notin DOMAIN activeSessions
     THEN /\ Throws(c, "endSession", sessionId, "Failed to end session")
          /\ UNCHANGED activeSessions
     ELSE /\ activeSessions' = markEnded(activeSessions, sessionId)
          /\ Awaits(c, "endSession", sessionId, activeSessions[sessionId].userId)
  /\ UNCHANGED notSession

\* The summary arrives, or generating it fails.
EndSessionSummary(c) ==
  /\ Pending(c, "endSession")
  /\ Returns(c, "endSession", sessionCalls[c].sessionId)
  /\ UNCHANGED <<activeSessions, notSession>>

EndSessionSummaryFails(c) ==
  /\ Pending(c, "endSession")
  /\ Throws(c, "endSession", sessionCalls[c].sessionId, "Failed to end session")
  /\ UNCHANGED <<activeSessions, notSession>>

\* scheduleFollowUp builds an appointment and returns it.
ScheduleFollowUp(c, sessionId) ==
  /\ Free(c)
  /\ Returns(c, "scheduleFollowUp", sessionId)
  /\ UNCHANGED <<activeSessions, notSession>>

SessionInit ==
  /\ activeSessions = <<>>
  /\ sessionCalls = [c \in Clients |-> Idle]
  /\ ClassifierIdle
  /\ AnalysisIdle
  /\ ErrorIdle
  /\ ChatIdle
  /\ SocketIdle
  /\ AssessmentIdle
  /\ WorkflowIdle
  /\ PageIdle

SessionNext ==
  \E c \in Clients :
    \/ \E userId \in UserIds : ProcessTelemedicineRequest(c, userId)
    \/ ProcessTelemedicineStores(c)
    \/ ProcessTelemedicineFails(c)
    \/ \E sessionId \in SessionIds, participant \in Participants :
         JoinSession(c, sessionId, participant)
    \/ \E sessionId \in SessionIds : EndSession(c, sessionId)
    \/ EndSessionSummary(c)
    \/ EndSessionSummaryFails(c)
    \/ \E sessionId \in SessionIds : ScheduleFollowUp(c, sessionId)

SpecSession == SessionInit /\ [][SessionNext]_vars

(***************************************************************************)
(* server.js, POST /api/chat.  The handler picks an agent and a method by  *)
(* the context of the request and calls it; the call of a method the       *)
(* agent does not have throws a TypeError at once, any other call is       *)
(* awaited until the agent's processing succeeds or fails.  The methods of *)
(* an agent are the ones its class defines.  The telemedicine agent's      *)
(* processing ends by storing the new session.                             *)
(***************************************************************************)
AgentMethods ==
  [healthAgent |->
     {"analyzeSymptoms", "reviewMedicalHistory", "analyzeVitalSigns", "generateDiagnosis",
      "generateRecommendations", "processDiagnosis", "processGeneralQuery",
      "extractSymptoms", "getMedicalHistory", "getVitalSigns", "analyzeHealthTrends",
      "getHealthData"},
   medicationAgent |->
     {"analyzePrescription", "checkInteractions", "verifyAllergies", "optimizeDosage",
      "assessSafety", "generateRecommendations", "processMedicationRequest",
      "extractMedicationInfo", "getPatientProfile", "getCurrentMedications",
      "getAllergies", "checkDrugInteractions", "generateMedicationSchedule",
      "monitorAdherence", "generateSideEffectReport", "parseMedicationInfo",
      "searchMedicationDatabase", "validatePrescription"},
   telemedicineAgent |->
     {"assessPatient", "triageSymptoms", "matchDoctor", "prepareSession",
      "supportConsultation", "postConsultation", "processTelemedicineRequest",
      "extractConsultationDetails", "getPatientInfo", "joinSession", "endSession",
      "generateSessionSummary", "getAvailableDoctors", "scheduleFollowUp",
      "generateSessionId", "generateAppointmentId", "extractSymptoms",
      "extractConsultationType", "extractUrgency"}]

\* switch (context)
chatRoute(context) ==
  CASE context = "diagnosis" -> [agent |-> "healthAgent", method |-> "processDiagnosis"]
    [] context = "medication" ->
         [agent |-> "medicationAgent", method |-> "processMedicationQuery"]
    [] context = "telemedicine" ->
         [agent |-> "telemedicineAgent", method |-> "processTelemedicineRequest"]
    [] OTHER -> [agent |-> "healthAgent", method |-> "processGeneralQuery"]

Contexts == {"diagnosis", "medication", "telemedicine", "general", "", "undefined"}
Messages == {"I have a headache and fever", "Can I take ibuprofen?"}

ChatRequests == [context : Contexts, message : Messages, userId : UserIds]

ChatFailed == Sent(500, [success |-> FALSE, error |-> "AI processing failed"])

\* A request arrives; the handler runs up to the call of the agent.
PostChat ==
  /\ chatCall = NoChat \/ chatReply # NoResponse
  /\ \E request \in ChatRequests :
       LET route == chatRoute(request.context)
       IN  /\ chatRequest' = request
           /\ IF route.method \in AgentMethods[route.agent]
              THEN /\ chatCall' = [type |-> "pending", agent |-> route.agent,
                                   method |-> route.method]
                   /\ chatReply' = NoResponse
              ELSE /\ chatCall' = [type |-> "notAFunction", agent |-> route.agent,
                                   method |-> route.method]
                   /\ chatReply' = ChatFailed
  /\ UNCHANGED notChat

\* The agent's processing succeeds: res.json({ success: true, response }).
ChatAgentSucceeds ==
  /\ chatCall.type = "pending"
  /\ chatCall' = [chatCall EXCEPT !.type = "succeeded"]
  /\ chatReply' = Sent(200, [success |-> TRUE,
                             response |-> [agent |-> chatCall.agent,
                                           method |-> chatCall.method,
                                           message |-> chatRequest.message,
                                           userId |-> chatRequest.userId]])
  /\ IF chatCall.method = "processTelemedicineRequest"
     THEN \E sessionId \in SessionIds \ DOMAIN activeSessions :
            activeSessions' =
              activeSessionsSet(activeSessions, sessionId, chatRequest.userId)
     ELSE UNCHANGED activeSessions
  /\ UNCHANGED <<chatRequest, sessionCalls, notChatNorSession>>

\* The agent's processing fails: the catch block answers 500.
ChatAgentFails ==
  /\ chatCall.type = "pending"
  /\ chatCall' = [chatCall EXCEPT !.type = "failed"]
  /\ chatReply' = ChatFailed
  /\ UNCHANGED <<chatRequest, notChat>>

ChatInit ==
  /\ chatRequest = NoRequest
  /\ chatCall = NoChat
  /\ chatReply = NoResponse
  /\ activeSessions = <<>>
  /\ sessionCalls = [c \in Clients |-> Idle]
  /\ ClassifierIdle
  /\ AnalysisIdle
  /\ ErrorIdle
  /\ SocketIdle
  /\ AssessmentIdle
  /\ WorkflowIdle
  /\ PageIdle

ChatNext == PostChat \/ ChatAgentSucceeds \/ ChatAgentFails

SpecChat == ChatInit /\ [][ChatNext]_vars

(***************************************************************************)
(* server.js, the socket handlers and POST /api/health-monitor.  A socket  *)
(* connects once, sends events and disconnects; the names of the rooms it  *)
(* asks for are texts of its choosing, a user id or a call id alike.  Of   *)
(* each socket the model keeps the rooms it is in, the user ids it has     *)
(* sent with join (a record of the past, not a field of the program) and   *)
(* the event delivered to it last.  The room each socket has under its own *)
(* socket id is left out.                                                  *)
(***************************************************************************)
Sockets == {"socket_1", "socket_2"}
MonitoredUsers == {"patient_1"}
CallIds == {"call_1"}
RoomNames == MonitoredUsers \cup CallIds

NewSocket == [state |-> "new", rooms |-> {}, joinSent |-> {}, lastEvent |-> NoEvent]

\* socket.to(room).emit(..): to every connected socket of the room but the
\* sender; io.to(room).emit(..): to every connected socket of the room.
Deliver(all, targets, event) ==
  [s \in Sockets |-> IF s \in targets THEN [all[s] EXCEPT !.lastEvent = event] ELSE all[s]]

InRoom(all, room) == {s \in Sockets : all[s].state = "connected" /\ room \in all[s].rooms}

Connect(s) ==
  /\ sockets[s].state = "new"
  /\ sockets' = [sockets EXCEPT ![s].state = "connected"]
  /\ UNCHANGED <<monitor, notSocket>>

Join(s, userId) ==
  /\ sockets[s].state = "connected"
  /\ sockets' = [sockets EXCEPT ![s].rooms = @ \cup {userId},
                                ![s].joinSent = @ \cup {userId}]
  /\ UNCHANGED <<monitor, notSocket>>

JoinCall(s, callId) ==
  /\ sockets[s].state = "connected"
  /\ LET joined == [sockets EXCEPT ![s].rooms = @ \cup {callId}]
     IN  sockets' = Deliver(joined, InRoom(joined, callId) \ {s},
                            [event |-> "userJoined", room |-> callId, from |-> s])
  /\ UNCHANGED <<monitor, notSocket>>

Stream(s, callId) ==
  /\ sockets[s].state = "connected"
  /\ sockets' = Deliver(sockets, InRoom(sockets, callId) \ {s},
                        [event |-> "stream", room |-> callId])
  /\ UNCHANGED <<monitor, notSocket>>

ChatMessage(s, roomId) ==
  /\ sockets[s].state = "connected"
  /\ sockets' = Deliver(sockets, InRoom(sockets, roomId) \ {s},
                        [event |-> "chatMessage", room |-> roomId])
  /\ UNCHANGED <<monitor, notSocket>>

\* On disconnect the socket leaves its rooms.
Disconnect(s) ==
  /\ sockets[s].state = "connected"
  /\ sockets' = [sockets EXCEPT ![s].state = "gone", ![s].rooms = {}]
  /\ UNCHANGED <<monitor, notSocket>>

\* The request bodies drawn: one without vitalSigns, one with.
MonitoredVitalSigns ==
  {Undefined,
   [bloodPressure |-> Text(118, 76), heartRate |-> Whole(72),
    temperature |-> Undefined, oxygenSaturation |-> Undefined]}

\* POST /api/health-monitor up to the await of analyzeVitalSigns.
PostHealthMonitor(userId, vs) ==
  /\ monitor.type # "pending"
  /\ monitor' = [type |-> "pending", userId |-> userId, vitalSigns |-> vs]
  /\ UNCHANGED <<sockets, notSocket>>

\* What the handler did for the request, in the order it did it, and
\* what it sent as the response.
Answered(effects, reply) ==
  monitor' = [type |-> "answered", userId |-> monitor.userId,
              vitalSigns |-> monitor.vitalSigns, effects |-> effects, reply |-> reply]

\* The analysis is there: io.to(userId).emit('healthUpdate', analysis), then
\* res.json({ success: true, analysis }).
HealthMonitorEmits ==
  /\ monitor.type = "pending"
  /\ ~analyzeCurrentVitalsThrows(monitor.vitalSigns)
  /\ sockets' = Deliver(sockets, InRoom(sockets, monitor.userId),
                        [event |-> "healthUpdate", room |-> monitor.userId])
  /\ Answered(<<"emit", "json">>, Sent(200, [success |-> TRUE]))
  /\ UNCHANGED notSocket

\* The handler with the update sent out before the analysis is awaited.
HealthMonitorFails_EmitsFirst ==
  /\ monitor.type = "pending"
  /\ analyzeCurrentVitalsThrows(monitor.vitalSigns)
  /\ sockets' = Deliver(sockets, InRoom(sockets, monitor.userId),
                        [event |-> "healthUpdate", room |-> monitor.userId])
  /\ Answered(<<"emit", "json">>,
              Sent(500, [success |-> FALSE, error |-> "Health monitoring failed"]))
  /\ UNCHANGED notSocket

\* analyzeVitalSigns throws: the catch block answers 500.
HealthMonitorFails ==
  /\ monitor.type = "pending"
  /\ analyzeCurrentVitalsThrows(monitor.vitalSigns)
  /\ Answered(<<"json">>,
              Sent(500, [success |-> FALSE, error |-> "Health monitoring failed"]))
  /\ UNCHANGED <<sockets, notSocket>>

SocketInit ==
  /\ sockets = [s \in Sockets |-> NewSocket]
  /\ monitor = NoMonitor
  /\ ClassifierIdle
  /\ AnalysisIdle
  /\ ErrorIdle
  /\ SessionIdle
  /\ ChatIdle
  /\ AssessmentIdle
  /\ WorkflowIdle
  /\ PageIdle

SocketNext ==
  \/ \E s \in Sockets :
       \/ Connect(s)
       \/ \E userId \in RoomNames : Join(s, userId)
       \/ \E callId \in RoomNames : JoinCall(s, callId)
       \/ \E callId \in RoomNames : Stream(s, callId)
       \/ \E roomId \in RoomNames : ChatMessage(s, roomId)
       \/ Disconnect(s)
  \/ \E userId \in MonitoredUsers, vs \in MonitoredVitalSigns : PostHealthMonitor(userId, vs)
  \/ HealthMonitorEmits
  \/ HealthMonitorFails

SpecSocket == SocketInit /\ [][SocketNext]_vars

(***************************************************************************)
(* The workflows of HealthAIAgent and MedicationAgent.  A workflow is the  *)
(* nodes added to the graph, each bound to a step of the agent, and the    *)
(* edges added between them.  workflow.invoke(input) runs the node no      *)
(* edge leads to, hands the state a step returns to a node an edge leads   *)
(* to from there, and ends at END.  A step asks the language model once    *)
(* and returns the state with the text of the reply in its field; when     *)
(* the call fails its catch block puts a fixed text there.                 *)
(***************************************************************************)
END == "__end__"

Node(name, field, fallback) == [name |-> name, field |-> field, fallback |-> fallback]

createHealthWorkflow ==
  [agent |-> "HealthAIAgent",
   input |-> {"symptoms", "medicalHistory", "vitalSigns"},
   nodes |->
     {Node("symptom_analysis", "symptomAnalysis",
           "Unable to analyze symptoms at this time."),
      Node("history_review", "historyReview",
           "Unable to review medical history at this time."),
      Node("vital_analysis", "vitalAnalysis",
           "Unable to analyze vital signs at this time."),
      Node("diagnosis_generation", "diagnosis",
           "Unable to generate diagnosis at this time."),
      Node("recommendation_engine", "recommendations",
           "Unable to generate recommendations at this time.")},
   edges |->
     {<<"symptom_analysis", "history_review">>,
      <<"history_review", "vital_analysis">>,
      <<"vital_analysis", "diagnosis_generation">>,
      <<"diagnosis_generation", "recommendation_engine">>,
      <<"recommendation_engine", END>>}]

createMedicationWorkflow ==
  [agent |-> "MedicationAgent",
   input |-> {"prescription", "patientProfile", "currentMedications", "allergies"},
   nodes |->
     {Node("prescription_analysis", "prescriptionAnalysis",
           "Unable to analyze prescription at this time."),
      Node("interaction_check", "interactionAnalysis",
           "Unable to check interactions at this time."),
      Node("allergy_verification", "allergyVerification",
           "Unable to verify allergies at this time."),
      Node("dosage_optimization", "dosageOptimization",
           "Unable to optimize dosage at this time."),
      Node("safety_assessment", "safetyAssessment",
           "Unable to assess safety at this time."),
      Node("recommendation_generation", "recommendations",
           "Unable to generate recommendations at this time.")},
   edges |->
     {<<"prescription_analysis", "interaction_check">>,
      <<"interaction_check", "allergy_verification">>,
      <<"allergy_verification", "dosage_optimization">>,
      <<"dosage_optimization", "safety_assessment">>,
      <<"safety_assessment", "recommendation_generation">>,
      <<"recommendation_generation", END>>}]

Workflows == {createHealthWorkflow, createMedicationWorkflow}
workflowOf(agent) == CHOOSE w \in Workflows : w.agent = agent
nodeOf(w, name) == CHOOSE n \in w.nodes : n.name = name

\* The nodes a run can start at and go on to.
entryPoints(w) == {n.name : n \in {m \in w.nodes : ~\E e \in w.edges : e[2] = m.name}}
successors(w, name) == {e[2] : e \in {d \in w.edges : d[1] = name}}

\* The state handed to the first step: the input given to invoke; a field
\* no step has written yet is undefined.
invokeState(w) ==
  [f \in w.input \cup {n.field : n \in w.nodes} |->
     IF f \in w.input THEN Str("given") ELSE Undefined]

\* return { ...state, <field>: text }
stepReturn(state, node, text) == [state EXCEPT ![node.field] = Str(text)]

\* The replies of the language model drawn.
Replies == {"reply_a", "reply_b"}

Running == workflowRun.stage = "running"

\* this.workflow.invoke({..}) of processDiagnosis / processMedicationRequest
InvokeWorkflow(w) ==
  /\ workflowRun = Idle
  /\ \E first \in entryPoints(w) :
       workflowRun' = [stage |-> "running", agent |-> w.agent, at |-> first,
                       state |-> invokeState(w), ran |-> <<>>, failed |-> <<>>]
  /\ UNCHANGED notWorkflow

Stepped(text, failed) ==
  /\ Running
  /\ workflowRun.at # END
  /\ LET w == workflowOf(workflowRun.agent)
         node == nodeOf(w, workflowRun.at)
     IN  \E next \in successors(w, node.name) :
           workflowRun' =
             [workflowRun EXCEPT
                !.at = next,
                !.state = stepReturn(workflowRun.state, node, text),
                !.ran = Append(@, node.name),
                !.failed = Append(@, failed)]
  /\ UNCHANGED notWorkflow

\* A step whose call of the language model fails, without the try/catch:
\* the rejection ends the run.
StepFails_Uncaught ==
  /\ Running
  /\ workflowRun.at # END
  /\ workflowRun' = [stage |-> "thrown", agent |-> workflowRun.agent]
  /\ UNCHANGED notWorkflow

\* The step at the node reached: the language model replies, or the call
\* fails and the catch block returns the state with the fixed text.
StepReturns(text) == Stepped(text, FALSE)
StepFails ==
  Stepped(nodeOf(workflowOf(workflowRun.agent), workflowRun.at).fallback, TRUE)

WorkflowInit ==
  /\ workflowRun = Idle
  /\ ClassifierIdle
  /\ AnalysisIdle
  /\ AssessmentIdle
  /\ ErrorIdle
  /\ SessionIdle
  /\ ChatIdle
  /\ SocketIdle
  /\ PageIdle

WorkflowNext ==
  \/ \E w \in Workflows : InvokeWorkflow(w)
  \/ \E text \in Replies : StepReturns(text)
  \/ StepFails

SpecWorkflow == WorkflowInit /\ [][WorkflowNext]_vars

(***************************************************************************)
(* The HealthChat page: its state hooks, the handlers of the input area    *)
(* and the requests they send.  A text is the sequence of its characters;  *)
(* messages holds the number of entries of the conversation.               *)
(***************************************************************************)
MaxTextLength == 2
MaxInFlight == 2
MaxHistory == 1
MaxMessages == MaxHistory + MaxInFlight + 2

Characters == {" ", "a"}
Texts == UNION {[1..n -> Characters] : n \in 0..MaxTextLength}
File == [type |-> "file"]
Files == {File}

\* String.prototype.trim
RECURSIVE trimStart(_)
trimStart(text) ==
  IF text # <<>> /\ Head(text) = " " THEN trimStart(Tail(text)) ELSE text

RECURSIVE trimEnd(_)
trimEnd(text) ==
  IF text # <<>> /\ text[Len(text)] = " "
  THEN trimEnd(SubSeq(text, 1, Len(text) - 1))
  ELSE text

trim(text) == trimEnd(trimStart(text))

\* The replies the page still waits for, each of which appends one message.
awaited == inFlight["message"] + inFlight["voice"] + inFlight["file"]

\* A handler sends one more request and, with it, adds `shown` messages.
CanSend(shown) ==
  /\ awaited < MaxInFlight
  /\ messages + awaited + shown + 1 <= MaxMessages

sent(kind) == [inFlight EXCEPT ![kind] = @ + 1]
settled(kind) == [inFlight EXCEPT ![kind] = @ - 1]
\* queryClient.invalidateQueries(['chatHistory']): the history is fetched again
invalidated(requests) == [requests EXCEPT !["history"] = 1]

\* onChange of the text input, which is disabled while isTyping
SetInputMessage(text) ==
  /\ ~isTyping
  /\ inputMessage' = text
  /\ UNCHANGED <<isTyping, isRecording, selectedFile, messages,
                 historyLoading, inFlight>>
  /\ UNCHANGED notPage

\* handleSendMessage: the send button, Enter in the input, the quick actions
HandleSendMessage ==
  /\ trim(inputMessage) # <<>>
  /\ CanSend(1)
  /\ messages' = messages + 1
  /\ inputMessage' = <<>>
  /\ isTyping' = TRUE
  /\ inFlight' = sent("message")
  /\ UNCHANGED <<isRecording, selectedFile, historyLoading>>
  /\ UNCHANGED notPage

\* sendMessageMutation.onSuccess
SendMessageSucceeds ==
  /\ inFlight["message"] > 0
  /\ messages' = messages + 1
  /\ isTyping' = FALSE
  /\ inFlight' = invalidated(settled("message"))
  /\ UNCHANGED <<inputMessage, isRecording, selectedFile, historyLoading>>
  /\ UNCHANGED notPage

\* sendMessageMutation.onError
SendMessageFails ==
  /\ inFlight["message"] > 0
  /\ isTyping' = FALSE
  /\ inFlight' = settled("message")
  /\ UNCHANGED <<inputMessage, isRecording, selectedFile, messages,
                 historyLoading>>
  /\ UNCHANGED notPage

\* The microphone button: setIsRecording(!isRecording)
ToggleRecording ==
  /\ isRecording' = ~isRecording
  /\ UNCHANGED <<isTyping, inputMessage, selectedFile, messages,
                 historyLoading, inFlight>>
  /\ UNCHANGED notPage

\* handleVoiceMessage, called by the recorder, which is shown while isRecording
HandleVoiceMessage ==
  /\ isRecording
  /\ CanSend(0)
  /\ isRecording' = FALSE
  /\ isTyping' = TRUE
  /\ inFlight' = sent("voice")
  /\ UNCHANGED <<inputMessage, selectedFile, messages, historyLoading>>
  /\ UNCHANGED notPage

\* handleVoiceMessage after chatService.sendVoiceMessage resolved
SendVoiceMessageSucceeds ==
  /\ inFlight["voice"] > 0
  /\ messages' = messages + 1
  /\ inFlight' = settled("voice")
  /\ UNCHANGED <<isTyping, inputMessage, isRecording, selectedFile,
                 historyLoading>>
  /\ UNCHANGED notPage

\* handleVoiceMessage after chatService.sendVoiceMessage rejected: the catch
SendVoiceMessageFails ==
  /\ inFlight["voice"] > 0
  /\ isTyping' = FALSE
  /\ inFlight' = settled("voice")
  /\ UNCHANGED <<inputMessage, isRecording, selectedFile, messages,
                 historyLoading>>
  /\ UNCHANGED notPage

\* handleFileUpload, called by onChange of the file input
HandleFileUpload(file) ==
  /\ CanSend(0)
  /\ selectedFile' = file
  /\ isTyping' = TRUE
  /\ inFlight' = sent("file")
  /\ UNCHANGED <<inputMessage, isRecording, messages, historyLoading>>
  /\ UNCHANGED notPage

\* sendFileMutation.onSuccess
SendFileSucceeds ==
  /\ inFlight["file"] > 0
  /\ messages' = messages + 1
  /\ selectedFile' = Null
  /\ inFlight' = invalidated(settled("file"))
  /\ UNCHANGED <<isTyping, inputMessage, isRecording, historyLoading>>
  /\ UNCHANGED notPage

\* sendFileMutation.onError, then the catch of handleFileUpload
SendFileFails ==
  /\ inFlight["file"] > 0
  /\ inFlight' = settled("file")
  /\ UNCHANGED <<isTyping, inputMessage, isRecording, selectedFile, messages,
                 historyLoading>>
  /\ UNCHANGED notPage

\* onSuccess of the chat history query: setMessages(data || [])
ChatHistorySucceeds(length) ==
  /\ inFlight["history"] > 0
  /\ messages' = length
  /\ historyLoading' = FALSE
  /\ inFlight' = settled("history")
  /\ UNCHANGED <<isTyping, inputMessage, isRecording, selectedFile>>
  /\ UNCHANGED notPage

\* The chat history query failed.
ChatHistoryFails ==
  /\ inFlight["history"] > 0
  /\ historyLoading' = FALSE
  /\ inFlight' = settled("history")
  /\ UNCHANGED <<isTyping, inputMessage, isRecording, selectedFile, messages>>
  /\ UNCHANGED notPage

\* The effect that starts the conversation: setMessages([welcomeMessage])
WelcomeMessage ==
  /\ messages = 0 /\ ~historyLoading
  /\ messages' = 1
  /\ UNCHANGED <<isTyping, inputMessage, isRecording, selectedFile,
                 historyLoading, inFlight>>
  /\ UNCHANGED notPage

\* A request of the page settles, one way or the other.
Settles ==
  \/ SendMessageSucceeds
  \/ SendMessageFails
  \/ SendVoiceMessageSucceeds
  \/ SendVoiceMessageFails
  \/ SendFileSucceeds
  \/ SendFileFails
  \/ \E length \in 0..MaxHistory : ChatHistorySucceeds(length)
  \/ ChatHistoryFails

\* The page once mounted: the initial values of its hooks, the history asked for.
PageInit ==
  /\ isTyping = FALSE
  /\ inputMessage = <<>>
  /\ isRecording = FALSE
  /\ selectedFile = Null
  /\ messages = 0
  /\ historyLoading = TRUE
  /\ inFlight = [NoRequests EXCEPT !["history"] = 1]
  /\ ClassifierIdle
  /\ AnalysisIdle
  /\ AssessmentIdle
  /\ ErrorIdle
  /\ SessionIdle
  /\ ChatIdle
  /\ SocketIdle
  /\ WorkflowIdle

PageNext ==
  \/ \E text \in Texts : SetInputMessage(text)
  \/ HandleSendMessage
  \/ ToggleRecording
  \/ HandleVoiceMessage
  \/ \E file \in Files : HandleFileUpload(file)
  \/ WelcomeMessage
  \/ Settles

SpecPage == PageInit /\ [][PageNext]_vars

\* Every request sent is answered or fails in the end, whatever its kind, and
\* the effect runs once its condition holds.
SpecPageFair ==
  /\ SpecPage
  /\ \A kind \in RequestKinds :
       WF_vars(Settles /\ inFlight'[kind] < inFlight[kind])
  /\ WF_vars(WelcomeMessage)

(***************************************************************************)
(* Properties of the classifiers, under SpecVitals.                        *)
(***************************************************************************)
Classified == classification # NoResult
IsVital(v) == Classified /\ reading.vital = v

\* C1: every blood pressure reading with systolic >= 180 or diastolic >= 120
\* gets band "crisis" and risk "critical".
C1_CrisisIsCritical ==
  (IsVital("bloodPressure") /\ (reading.systolic >= 180 \/ reading.diastolic >= 120))
    => (classification.status = "crisis" /\ classification.risk = "critical")

C1_Witness ==
  /\ IsVital("bloodPressure")
  /\ reading.systolic < 180 /\ reading.diastolic >= 120
  /\ classification.status = "crisis" /\ classification.risk = "critical"

BandRank(band) ==
  CASE band = "normal" -> 0 [] band = "elevated" -> 1
    [] band = "high" -> 2 [] band = "crisis" -> 3

RiskRank(risk) ==
  CASE risk = "low" -> 0 [] risk = "elevated" -> 1 [] risk = "moderate" -> 2
    [] risk = "high" -> 3 [] risk = "critical" -> 4

\* C2: with the diastolic value held fixed, no higher systolic value gets a
\* lower band (normal < elevated < high < crisis) or a lower risk (low <
\* elevated < moderate < high < critical) than the reading classified.
C2_MonotonicInSystolic ==
  IsVital("bloodPressure") =>
    \A s2 \in Systolics :
      s2 >= reading.systolic =>
        /\ BandRank(classifyBloodPressure(s2, reading.diastolic))
             >= BandRank(classification.status)
        /\ RiskRank(assessBloodPressureRisk(s2, reading.diastolic))
             >= RiskRank(classification.risk)

C2_Witness ==
  /\ IsVital("bloodPressure")
  /\ classification.status = "normal" /\ classification.risk = "low"
  /\ \E s2 \in Systolics :
       /\ s2 > reading.systolic
       /\ classifyBloodPressure(s2, reading.diastolic) = "crisis"
       /\ assessBloodPressureRisk(s2, reading.diastolic) = "critical"

\* The label of the first row of a table whose condition holds.
FirstMatch(rows) ==
  rows[CHOOSE i \in 1..Len(rows) :
         rows[i].holds /\ \A j \in 1..(i - 1) : ~rows[j].holds].label

\* The band table of the specification, in priority order.
BandRows(s, d) ==
  << [label |-> "crisis",   holds |-> s >= 180 \/ d >= 120],
     [label |-> "high",     holds |-> s >= 130 \/ d >= 80],
     [label |-> "elevated", holds |-> 120 <= s /\ s < 130 /\ d < 80],
     [label |-> "normal",   holds |-> TRUE] >>

\* C3: the band of a blood pressure reading is the first matching row of the
\* band table; it is "elevated" exactly when 120 <= systolic < 130 and
\* diastolic < 80, and "normal" exactly when systolic < 120 and diastolic < 80.
C3_FirstMatchingBand ==
  IsVital("bloodPressure") =>
    LET s == reading.systolic
        d == reading.diastolic
    IN  /\ classification.status = FirstMatch(BandRows(s, d))
        /\ classification.status = "elevated" <=> (120 <= s /\ s < 130 /\ d < 80)
        /\ classification.status = "normal" <=> (s < 120 /\ d < 80)

C3_Witness ==
  /\ IsVital("bloodPressure")
  /\ reading.systolic = 120 /\ reading.diastolic = 79
  /\ classification.status = "elevated"

\* C4: the band limits of the single-value vitals are exact.  Heart rate:
\* bradycardia iff < 60, tachycardia iff > 100, else normal.  Temperature:
\* highFever iff >= 103.1, fever iff 99.1 <= t < 103.1, else normal.  Oxygen
\* saturation: critical iff < 90, low iff 90 <= v < 95, else normal.
C4_ExactBandLimits ==
  /\ IsVital("heartRate") =>
       LET v == reading.value
           b == classification.status
       IN  /\ b = "bradycardia" <=> v < 60
           /\ b = "tachycardia" <=> v > 100
           /\ b = "normal" <=> (60 <= v /\ v <= 100)
  /\ IsVital("temperature") =>
       LET t == reading.tenths
           b == classification.status
       IN  /\ b = "highFever" <=> t >= 1031
           /\ b = "fever" <=> (991 <= t /\ t < 1031)
           /\ b = "normal" <=> t < 991
  /\ IsVital("oxygenSaturation") =>
       LET v == reading.value
           b == classification.status
       IN  /\ b = "critical" <=> v < 90
           /\ b = "low" <=> (90 <= v /\ v < 95)
           /\ b = "normal" <=> v >= 95

C4_Witness ==
  /\ IsVital("heartRate")
  /\ reading.value = 60
  /\ classification.status = "normal"

\* The risk tables of the specification, in priority order; a temperature is
\* given in tenths of a degree.
RiskRows(r) ==
  CASE r.vital = "bloodPressure" ->
         LET s == r.systolic
             d == r.diastolic
         IN  << [label |-> "critical", holds |-> s >= 180 \/ d >= 120],
                [label |-> "high",     holds |-> s >= 160 \/ d >= 100],
                [label |-> "moderate", holds |-> s >= 140 \/ d >= 90],
                [label |-> "elevated", holds |-> s >= 120 \/ d >= 80],
                [label |-> "low",      holds |-> TRUE] >>
    [] r.vital = "heartRate" ->
         << [label |-> "critical", holds |-> r.value < 40 \/ r.value > 140],
            [label |-> "high",     holds |-> r.value < 50 \/ r.value > 120],
            [label |-> "moderate", holds |-> r.value < 60 \/ r.value > 100],
            [label |-> "low",      holds |-> TRUE] >>
    [] r.vital = "temperature" ->
         << [label |-> "critical", holds |-> r.tenths >= 1050],
            [label |-> "high",     holds |-> r.tenths >= 1030],
            [label |-> "moderate", holds |-> r.tenths >= 1004],
            [label |-> "low",      holds |-> TRUE] >>
    [] r.vital = "oxygenSaturation" ->
         << [label |-> "critical", holds |-> r.value < 85],
            [label |-> "high",     holds |-> r.value < 90],
            [label |-> "moderate", holds |-> r.value < 95],
            [label |-> "low",      holds |-> TRUE] >>

\* C5: the risk of every reading is the first matching row of the risk table
\* of its vital sign.
C5_FirstMatchingRisk ==
  Classified => classification.risk = FirstMatch(RiskRows(reading))

C5_Witness ==
  /\ IsVital("temperature")
  /\ reading.tenths = 1004
  /\ classification.risk = "moderate"
  /\ classification.status = "fever"

\* C11 as stated: every blood pressure reading with a systolic or diastolic
\* value outside 0..300, above 300 or below 0, gets band "crisis".
C11_OutOfRangeIsCrisis ==
  (IsVital("bloodPressure")
     /\ (reading.systolic \notin 0..300 \/ reading.diastolic \notin 0..300))
    => classification.status = "crisis"

\* C11 amended: a reading with a value above 300 gets band "crisis"; a value
\* below 0 passes the same comparisons as any other and falls through them,
\* so the band is decided by the other value alone, and a reading with a
\* negative value and no value at a limit of a higher band is "normal".
C11_AboveRangeIsCrisis ==
  IsVital("bloodPressure") =>
    LET s == reading.systolic
        d == reading.diastolic
    IN  /\ (s > 300 \/ d > 300) => classification.status = "crisis"
        /\ (s < 0 /\ d < 120) =>
              classification.status = IF d >= 80 THEN "high" ELSE "normal"
        /\ (d < 0 /\ s < 180) =>
              classification.status =
                IF s >= 130 THEN "high" ELSE IF s >= 120 THEN "elevated" ELSE "normal"

C11_Witness ==
  /\ IsVital("bloodPressure")
  /\ reading.systolic < 0 /\ reading.diastolic \in 0..79
  /\ classification.status = "normal"

\* C12 as stated: some blood pressure reading has band "normal" and risk
\* "elevated", and some reading with systolic 125 is one.
C12_NormalBandElevatedRisk ==
  IsVital("bloodPressure") =>
    /\ \E s \in Systolics, d \in Diastolics :
          /\ classifyBloodPressure(s, d) = "normal"
          /\ assessBloodPressureRisk(s, d) = "elevated"
    /\ \E d \in Diastolics :
          /\ classifyBloodPressure(125, d) = "normal"
          /\ assessBloodPressureRisk(125, d) = "elevated"

\* C12 amended: no blood pressure reading has band "normal" and risk
\* "elevated" (band "normal" goes with risk "low" only); a reading with
\* systolic 125 and diastolic below 80 has band "elevated" and risk
\* "elevated"; band and risk part company one band higher, where a reading
\* with systolic 130..139 and diastolic below 80 has band "high" and risk
\* "elevated".
C12_ElevatedBandElevatedRisk ==
  IsVital("bloodPressure") =>
    /\ classification.status = "normal" => classification.risk = "low"
    /\ (reading.systolic = 125 /\ reading.diastolic < 80) =>
          (classification.status = "elevated" /\ classification.risk = "elevated")
    /\ (reading.systolic \in 130..139 /\ reading.diastolic < 80) =>
          (classification.status = "high" /\ classification.risk = "elevated")

C12_Witness ==
  /\ IsVital("bloodPressure")
  /\ reading.systolic = 125 /\ reading.diastolic = 70
  /\ classification.status = "elevated" /\ classification.risk = "elevated"

\* The band and the risk the functions give a reading, and for each vital
\* sign and risk level the bands found among the readings of that level.
Outcome(r) ==
  CASE r.vital = "bloodPressure" ->
         [status |-> classifyBloodPressure(r.systolic, r.diastolic),
          risk |-> assessBloodPressureRisk(r.systolic, r.diastolic)]
    [] r.vital = "heartRate" ->
         [status |-> classifyHeartRate(r.value), risk |-> assessHeartRateRisk(r.value)]
    [] r.vital = "temperature" ->
         [status |-> classifyTemperature(Dec(r.tenths, 1)),
          risk |-> assessTemperatureRisk(Dec(r.tenths, 1))]
    [] r.vital = "oxygenSaturation" ->
         [status |-> classifyOxygenSaturation(r.value),
          risk |-> assessOxygenRisk(r.value)]

Vitals == {"bloodPressure", "heartRate", "temperature", "oxygenSaturation"}
Risks == {"critical", "high", "moderate", "elevated", "low"}

OutcomesOf == [v \in Vitals |-> {Outcome(r) : r \in {q \in Readings : q.vital = v}}]

BandsByRisk ==
  [v \in Vitals |->
     [k \in Risks |-> {o.status : o \in {p \in OutcomesOf[v] : p.risk = k}}]]

\* C13 as stated: for every vital sign, any two readings with the same risk
\* level have the same band.
C13_RiskRefinesBand ==
  Classified =>
    \A v \in Vitals, k \in Risks : Cardinality(BandsByRisk[v][k]) <= 1

\* C13 amended: the risk level of an oxygen saturation reading determines its
\* band; for the other three vital signs one risk level spans two bands:
\* blood pressure risk "elevated" the bands "elevated" and "high", heart rate
\* risks "moderate", "high" and "critical" the bands "bradycardia" and
\* "tachycardia", temperature risk "low" the bands "normal" and "fever" and
\* temperature risk "high" the bands "fever" and "highFever".
C13_OxygenRiskRefinesBand ==
  Classified =>
    /\ classification.status \in BandsByRisk[reading.vital][classification.risk]
    /\ IsVital("oxygenSaturation") =>
          BandsByRisk.oxygenSaturation[classification.risk] = {classification.status}
    /\ BandsByRisk.oxygenSaturation =
          [k \in Risks |->
             CASE k = "critical" -> {"critical"} [] k = "high" -> {"critical"}
               [] k = "moderate" -> {"low"} [] k = "elevated" -> {}
               [] k = "low" -> {"normal"}]
    /\ BandsByRisk.bloodPressure =
          [k \in Risks |->
             CASE k = "critical" -> {"crisis"} [] k = "high" -> {"high"}
               [] k = "moderate" -> {"high"} [] k = "elevated" -> {"elevated", "high"}
               [] k = "low" -> {"normal"}]
    /\ BandsByRisk.heartRate =
          [k \in Risks |->
             CASE k = "critical" -> {"bradycardia", "tachycardia"}
               [] k = "high" -> {"bradycardia", "tachycardia"}
               [] k = "moderate" -> {"bradycardia", "tachycardia"}
               [] k = "elevated" -> {} [] k = "low" -> {"normal"}]
    /\ BandsByRisk.temperature =
          [k \in Risks |->
             CASE k = "critical" -> {"highFever"} [] k = "high" -> {"fever", "highFever"}
               [] k = "moderate" -> {"fever"} [] k = "elevated" -> {}
               [] k = "low" -> {"normal", "fever"}]

C13_Witness ==
  /\ IsVital("oxygenSaturation")
  /\ reading.value = 94
  /\ classification.status = "low" /\ classification.risk = "moderate"
  /\ Outcome([vital |-> "oxygenSaturation", value |-> 90]) = classification

\* C30: for every heart rate the band is "normal" iff the risk is "low"; for
\* every oxygen saturation the band is "normal" iff the risk is "low", the
\* band is "low" iff the risk is "moderate", and the band is "critical" iff the
\* risk is "high" or "critical".
C30_BandRiskAgree ==
  /\ IsVital("heartRate") =>
        (classification.status = "normal" <=> classification.risk = "low")
  /\ IsVital("oxygenSaturation") =>
        /\ classification.status = "normal" <=> classification.risk = "low"
        /\ classification.status = "low" <=> classification.risk = "moderate"
        /\ classification.status = "critical" <=>
              classification.risk \in {"high", "critical"}

C30_Witness ==
  /\ IsVital("heartRate")
  /\ reading.value = 100
  /\ classification.status = "normal" /\ classification.risk = "low"

\* The threshold table read as ranges.  A range <<lo, hi>> holds the values
\* from lo to hi; the upper end is taken in (closed) or left out.  A blood
\* pressure band holds a reading when its systolic range holds the systolic
\* value and its diastolic range the diastolic value.
Holds(range, x, closed) ==
  x >= range[1] /\ (IF closed THEN x <= range[2] ELSE x < range[2])

HoldsNumber(range, x, closed) ==
  FGe(x, range[1]) /\ (IF closed THEN FGe(range[2], x) ELSE FLt(x, range[2]))

InBand(table, r, band, closed) ==
  CASE r.vital = "bloodPressure" ->
         /\ Holds(table.bloodPressure[band].systolic, r.systolic, closed)
         /\ Holds(table.bloodPressure[band].diastolic, r.diastolic, closed)
    [] r.vital = "heartRate" -> Holds(table.heartRate[band], r.value, closed)
    [] r.vital = "temperature" ->
         HoldsNumber(table.temperature[band], Dec(r.tenths, 1), closed)
    [] r.vital = "oxygenSaturation" ->
         Holds(table.oxygenSaturation[band], r.value, closed)

BandsHolding(table, r, closed) ==
  {band \in DOMAIN table[r.vital] : InBand(table, r, band, closed)}

\* The valid domain of a vital sign: from the least lower end to the greatest
\* upper end of its ranges.
InDomain(r) ==
  CASE r.vital = "bloodPressure" -> r.systolic \in 90..300 /\ r.diastolic \in 60..200
    [] r.vital = "heartRate" -> r.value \in 0..200
    [] r.vital = "temperature" -> r.tenths \in 978..1060
    [] r.vital = "oxygenSaturation" -> r.value \in 0..100

\* C14: every valid value of a classified reading lies in the range of
\* exactly one band of the threshold table, and that band is the one the
\* classify function returned, with the upper ends of the ranges read as
\* closed or with them read as open.
C14_ThresholdTable ==
  (Classified /\ InDomain(reading)) =>
    \/ BandsHolding(healthThresholds, reading, TRUE) = {classification.status}
    \/ BandsHolding(healthThresholds, reading, FALSE) = {classification.status}

(***************************************************************************)
(* Properties of calculateTrend, under SpecTrend.  Exact values: a triple  *)
(* [s, m, e] with m odd (or zero) stands for (-1)^s * m * 2^e without any  *)
(* rounding; two numbers are equal as real numbers iff their triples are.  *)
(***************************************************************************)
Computed == trend # NoTrend

\* The positions of series that hold a number.
Valid == {i \in DOMAIN series : series[i] # Null /\ series[i] # Undefined}

RECURSIVE Canon(_)
Canon(x) ==
  IF x.m = <<>> THEN Zero
  ELSE IF Bit(x.m, 0) = 0 THEN Canon([s |-> x.s, m |-> Shr(x.m, 1), e |-> x.e + 1])
  ELSE x

\* x - y, exactly
ExactSub(x, y) ==
  IF IsZero(y) THEN Canon(x)
  ELSE IF IsZero(x) THEN Canon(Neg(y))
  ELSE LET e == Min(x.e, y.e)
           a == Shl(x.m, x.e - e)
           b == Shl(y.m, y.e - e)
           c == BCmp(a, b)
       IN  IF x.s # y.s THEN Canon([s |-> x.s, m |-> BAdd(a, b), e |-> e])
           ELSE IF c = 0 THEN Zero
           ELSE IF c > 0 THEN Canon([s |-> x.s, m |-> BSub(a, b), e |-> e])
           ELSE Canon([s |-> 1 - x.s, m |-> BSub(b, a), e |-> e])

\* k * x for a natural number k, exactly
ExactTimes(k, x) == Canon([s |-> x.s, m |-> BMul(BigOfNat(k), x.m), e |-> x.e])

\* -1, 0, 1 as x < y, x = y, x > y, exactly
ExactCmp(x, y) ==
  LET sx == IF IsZero(x) THEN 0 ELSE IF x.s = 1 THEN -1 ELSE 1
      sy == IF IsZero(y) THEN 0 ELSE IF y.s = 1 THEN -1 ELSE 1
  IN  IF sx # sy THEN (IF sx < sy THEN -1 ELSE 1)
      ELSE IF sx = 0 THEN 0
      ELSE LET e == Min(x.e, y.e)
           IN  sx * BCmp(Shl(x.m, x.e - e), Shl(y.m, y.e - e))

IsInteger(x) == Canon(x).e >= 0

\* series is two or more numbers, each the one before plus the same step.
IsProgression ==
  /\ Valid = DOMAIN series
  /\ Len(series) >= 2
  /\ \A i \in 2..(Len(series) - 1) :
       ExactSub(series[i + 1], series[i]) = ExactSub(series[2], series[1])

\* What C7 says of a progression with step d: the slope is d, the change is
\* (n - 1) * d, and the direction is that of d against 0.1 and -0.1.
ProgressionTrend ==
  LET d == ExactSub(series[2], series[1])
  IN  /\ Canon(trend.slope) = d
      /\ Canon(trend.change) = ExactTimes(Len(series) - 1, d)
      /\ trend.direction =
           (IF ExactCmp(d, Tenth) > 0 THEN "increasing"
            ELSE IF ExactCmp(d, Neg(Tenth)) < 0 THEN "decreasing"
            ELSE "stable")

\* C6: for fewer than 2 valid values (the empty series and a single value
\* included) the result is direction "stable", slope 0, and no change field.
C6_TooFewValues ==
  (Computed /\ Cardinality(Valid) < 2)
    => /\ trend.direction = "stable"
       /\ trend.slope = Zero
       /\ DOMAIN trend = {"direction", "slope"}

C6_Witness ==
  /\ Computed
  /\ Len(series) = 2 /\ Cardinality(Valid) = 1
  /\ trend.direction = "stable" /\ "change" \notin DOMAIN trend

\* C7 as stated: for every series of n >= 2 values in arithmetic progression
\* with step d, slope = d, change = (n - 1) * d, and the direction is
\* "increasing" for d > 0.1, "decreasing" for d < -0.1, "stable" otherwise.
C7_AnyProgression ==
  (Computed /\ IsProgression) => ProgressionTrend

\* C7 as amended: the same for every progression of whole numbers; the three
\* series of the specification give 10/increasing/20, -10/decreasing/-20 and
\* 0/stable/0.
C7_IntegerProgression ==
  /\ (Computed /\ IsProgression /\ \A i \in DOMAIN series : IsInteger(series[i]))
       => ProgressionTrend
  /\ (Computed /\ series = <<Num(10), Num(20), Num(30)>>)
       => trend = [direction |-> "increasing", slope |-> Num(10), change |-> Num(20)]
  /\ (Computed /\ series = <<Num(30), Num(20), Num(10)>>)
       => trend = [direction |-> "decreasing", slope |-> Num(-10), change |-> Num(-20)]
  /\ (Computed /\ series = <<Num(50), Num(50), Num(50), Num(50)>>)
       => trend = [direction |-> "stable", slope |-> Zero, change |-> Zero]

C7_Witness ==
  /\ Computed
  /\ series = <<Num(10), Num(20), Num(30)>>
  /\ trend.slope = Num(10)
  /\ trend.direction = "increasing"

\* series without its null and undefined entries.
RECURSIVE Compact(_)
Compact(entries) ==
  IF entries = <<>> THEN <<>>
  ELSE IF Head(entries) = Null \/ Head(entries) = Undefined THEN Compact(Tail(entries))
  ELSE <<Head(entries)>> \o Compact(Tail(entries))

HasGap == Valid # DOMAIN series

\* C8: a series with null or undefined entries gets the result of the series
\* with those entries removed: positions are counted among the values kept,
\* and change is the last valid value minus the first valid value.
C8_GapsFiltered ==
  (Computed /\ HasGap) =>
    /\ trend = calculateTrend(Compact(series))
    /\ Cardinality(Valid) >= 2 =>
         LET first == CHOOSE i \in Valid : \A j \in Valid : i <= j
             last == CHOOSE i \in Valid : \A j \in Valid : i >= j
         IN  Canon(trend.change) = Canon(FSub(series[last], series[first]))

C8_Witness ==
  /\ Computed
  /\ Len(series) = 3 /\ Valid = {1, 3}
  /\ series[1] # series[3]
  /\ trend.slope # Zero
  /\ trend.slope = trend.change

\* C9: for 2 or more valid values the direction is "increasing" iff
\* slope > 0.1, "decreasing" iff slope < -0.1 and "stable" iff
\* -0.1 <= slope <= 0.1; a slope of exactly 0.1 or -0.1 is "stable".
C9_DirectionLimits ==
  (Computed /\ Cardinality(Valid) >= 2) =>
    LET above == ExactCmp(trend.slope, Tenth) > 0
        below == ExactCmp(trend.slope, Neg(Tenth)) < 0
    IN  /\ trend.direction = "increasing" <=> above
        /\ trend.direction = "decreasing" <=> below
        /\ trend.direction = "stable" <=> (~above /\ ~below)

C9_Witness ==
  /\ Computed
  /\ trend.slope = Tenth
  /\ trend.direction = "stable"

\* The divisors for 2 up to MaxValues values, more than any series drawn has.
MaxValues == 40
Denominators == [n \in 2..MaxValues |-> denominator(n)]

\* C16: for every number n >= 2 of valid values the divisor of the slope,
\* n * sum(x^2) - (sum x)^2 over x = 0..n-1, is strictly positive (it is
\* n^2 (n^2 - 1) / 12), so the division of calculateTrend is never by zero.
C16_DenominatorPositive ==
  (Computed /\ Cardinality(Valid) >= 2) =>
    /\ FGt(denominator(Cardinality(Valid)), Zero)
    /\ \A n \in 2..MaxValues :
          /\ FGt(Denominators[n], Zero)
          /\ Denominators[n] = Num((n * n * (n * n - 1)) \div 12)

C16_Witness ==
  /\ Computed
  /\ Cardinality(Valid) = 3
  /\ denominator(3) = Num(6)
  /\ "change" \in DOMAIN trend

(***************************************************************************)
(* Properties of analyzeCurrentVitals, under SpecAnalysis.                 *)
(***************************************************************************)
Analysed == analysis # NoAnalysis

\* C15: every heart rate, temperature or oxygen saturation value present in
\* vitalSigns, zero and negative values included, has an entry in the result
\* carrying the value, its band and its risk; a vital sign is absent from
\* the result only when its field is absent from vitalSigns.
C15_EveryNumberClassified ==
  Analysed =>
    /\ vitalSigns.heartRate # Undefined =>
          analysis.heartRate =
            [value |-> vitalSigns.heartRate.value,
             status |-> classifyHeartRate(vitalSigns.heartRate.value),
             risk |-> assessHeartRateRisk(vitalSigns.heartRate.value)]
    /\ vitalSigns.temperature # Undefined =>
          analysis.temperature =
            [value |-> vitalSigns.temperature.value,
             status |-> classifyTemperature(vitalSigns.temperature.value),
             risk |-> assessTemperatureRisk(vitalSigns.temperature.value)]
    /\ vitalSigns.oxygenSaturation # Undefined =>
          analysis.oxygenSaturation =
            [value |-> vitalSigns.oxygenSaturation.value,
             status |-> classifyOxygenSaturation(vitalSigns.oxygenSaturation.value),
             risk |-> assessOxygenRisk(vitalSigns.oxygenSaturation.value)]
    /\ \A key \in {"heartRate", "temperature", "oxygenSaturation"} :
          analysis[key] = Undefined => vitalSigns[key] = Undefined

(***************************************************************************)
(* Properties of analyzeVitalSigns, under SpecAssessment.                  *)
(***************************************************************************)
Assessed == assessment.stage = "returned"

\* Some vital sign of the analysis has the risk level.
SomeRisk(status, level) ==
  \E k \in DOMAIN status : status[k] # Undefined /\ status[k].risk = level

\* Some short-term prediction has severity "high" or "critical".
SevereShortTerm(riskPredictions) ==
  \E i \in DOMAIN riskPredictions.shortTerm :
    riskPredictions.shortTerm[i].severity \in {"high", "critical"}

\* C22: the urgency is "emergency" iff some analysed vital sign has risk
\* "critical"; otherwise "urgent" iff some short-term prediction has severity
\* "high" or "critical"; otherwise "moderate" iff some vital sign has risk
\* "high"; otherwise "routine".  A blood pressure of band "crisis" gives
\* "emergency" whatever the predictions are.
C22_UrgencyPriority ==
  Assessed =>
    LET status == assessment.result.currentStatus
        urgency == assessment.result.urgency
        critical == SomeRisk(status, "critical")
        severe == SevereShortTerm(assessment.result.riskPredictions)
        high == SomeRisk(status, "high")
    IN  /\ urgency \in {"emergency", "urgent", "moderate", "routine"}
        /\ urgency = "emergency" <=> critical
        /\ urgency = "urgent" <=> (~critical /\ severe)
        /\ urgency = "moderate" <=> (~critical /\ ~severe /\ high)
        /\ urgency = "routine" <=> (~critical /\ ~severe /\ ~high)
        /\ (/\ assessment.vitalSigns.bloodPressure # Undefined
            /\ classifyBloodPressure(assessment.vitalSigns.bloodPressure.systolic,
                                     assessment.vitalSigns.bloodPressure.diastolic)
                 = "crisis") => urgency = "emergency"

C22_Witness ==
  /\ Assessed
  /\ assessment.vitalSigns.bloodPressure = Text(165, 70)
  /\ assessment.result.currentStatus.bloodPressure.risk = "high"
  /\ ~SomeRisk(assessment.result.currentStatus, "critical")
  /\ Len(assessment.result.riskPredictions.shortTerm) = 1
  /\ assessment.result.riskPredictions.shortTerm[1].severity = "critical"
  /\ assessment.result.urgency = "urgent"

DeclaredOrder(agent) ==
  IF agent = "HealthAIAgent"
  THEN <<"symptom_analysis", "history_review", "vital_analysis", "diagnosis_generation",
         "recommendation_engine">>
  ELSE <<"prescription_analysis", "interaction_check", "allergy_verification",
         "dosage_optimization", "safety_assessment", "recommendation_generation">>

UnableTexts ==
  {"Unable to analyze symptoms at this time.",
   "Unable to review medical history at this time.",
   "Unable to analyze vital signs at this time.",
   "Unable to generate diagnosis at this time.",
   "Unable to generate recommendations at this time.",
   "Unable to analyze prescription at this time.",
   "Unable to check interactions at this time.",
   "Unable to verify allergies at this time.",
   "Unable to optimize dosage at this time.",
   "Unable to assess safety at this time."}

\* C21: a workflow run has neither branching nor retry: the steps run are a
\* prefix of the declared order, each once, the node reached is the next of
\* the order, and END after the last; a run never aborts.  A step changes
\* its own output field only; a step whose call of the language model
\* failed has put its fixed "Unable to ..." text there, and the run goes on
\* to the next step.
C21_LinearPipeline ==
  [][workflowRun'.stage # "idle" =>
       LET run == workflowRun'
           order == DeclaredOrder(run.agent)
           done == Len(run.ran)
       IN  /\ run.stage = "running"
           /\ done <= Len(order)
           /\ run.ran = SubSeq(order, 1, done)
           /\ run.at = IF done = Len(order) THEN END ELSE order[done + 1]
           /\ Cardinality(entryPoints(workflowOf(run.agent))) = 1
           /\ \A n \in workflowOf(run.agent).nodes :
                Cardinality(successors(workflowOf(run.agent), n.name)) = 1
           /\ Running =>
                LET node == nodeOf(workflowOf(run.agent), workflowRun.at)
                IN  /\ done = Len(workflowRun.ran) + 1
                    /\ run.ran[done] = workflowRun.at
                    /\ node.field \notin workflowOf(run.agent).input
                    /\ \A f \in DOMAIN run.state \ {node.field} :
                         run.state[f] = workflowRun.state[f]
                    /\ run.state[node.field] # Undefined
                    /\ run.failed[done] =>
                         /\ run.state[node.field].text \in UnableTexts
                         /\ run.state[node.field].text = node.fallback
                         /\ run.at = IF done = Len(order) THEN END ELSE order[done + 1]]_vars

C21_Witness ==
  /\ Running
  /\ workflowRun.agent = "MedicationAgent"
  /\ workflowRun.at = END
  /\ workflowRun.failed = <<FALSE, TRUE, FALSE, FALSE, TRUE, FALSE>>
  /\ workflowRun.state["interactionAnalysis"] =
       Str("Unable to check interactions at this time.")
  /\ workflowRun.state["allergyVerification"] = Str("reply_a")
  /\ workflowRun.state["recommendations"] = Str("reply_b")

(***************************************************************************)
(* Properties of errorHandler and GET /health, under SpecError.            *)
(***************************************************************************)
Responded == httpResponse # NoResponse

\* C17: the health check always answers with status 200: for every error
\* that reaches errorHandler with req.path "/health" the response has status
\* 200 and body status "unhealthy", and GET /health without an error
\* answers 200 with status "healthy".
C17_HealthAlways200 ==
  (Responded /\ httpRequest = <<"health">>) =>
    /\ httpResponse.type = "sent"
    /\ httpResponse.status = 200
    /\ httpResponse.body.status = IF httpError = NoError THEN "healthy" ELSE "unhealthy"

\* The status the rules give an error, read from the last rule to the first.
RuleStatus(e) ==
  IF e.code = Str("ECONNREFUSED") THEN 503
  ELSE IF e.status = Whole(429) THEN 429
  ELSE IF e.code \in {Str("LIMIT_UNEXPECTED_FILE"), Str("LIMIT_FILE_SIZE")} THEN 400
  ELSE IF e.code = Str("openai_api_error") THEN 503
  ELSE IF e.name \in {"TokenExpiredError", "JsonWebTokenError"} THEN 401
  ELSE IF e.name = "ValidationError" \/ e.code = Whole(11000) THEN 400
  ELSE IF e.name = "CastError" THEN 404
  ELSE IF Truthy(e.statusCode) THEN e.statusCode.value
  ELSE 500

\* C29: for every error that reaches errorHandler with a request path other
\* than "/health", the response sent has the statusCode of the last rule of
\* the list that matches the error, otherwise the error's own statusCode,
\* otherwise 500, and its body has success false.
C29_LastMatchingRule ==
  (Responded /\ httpRequest # <<"health">>) =>
    /\ httpResponse.type = "sent"
    /\ httpResponse.status = RuleStatus(httpError)
    /\ httpResponse.body.success = FALSE

(***************************************************************************)
(* Properties of the TelemedicineAgent, under SpecSession.                 *)
(***************************************************************************)
\* C20: no operation of the TelemedicineAgent removes a key from
\* activeSessions: every step keeps every sessionId the map holds, those of
\* ended sessions included.
C20_NoEviction ==
  [][DOMAIN activeSessions \subseteq DOMAIN activeSessions']_vars

C20_Witness ==
  /\ DOMAIN activeSessions = SessionIds
  /\ \A sessionId \in SessionIds : activeSessions[sessionId].status = "ended"
  /\ \E c \in Clients :
        /\ sessionCalls[c].stage = "done"
        /\ sessionCalls[c].op = "endSession"
        /\ sessionCalls[c].outcome = "returned"

\* What one call changed, seen across a step: the call of client c that
\* stands finished after the step and did not stand so before it.
Finished(c, op, outcome) ==
  /\ sessionCalls'[c] # sessionCalls[c]
  /\ sessionCalls'[c].stage = "done"
  /\ sessionCalls'[c].op = op
  /\ sessionCalls'[c].outcome = outcome

\* C25: a session is registered only after its workflow has succeeded: while
\* processTelemedicineRequest is pending its sessionId is no key of
\* activeSessions; when it fails it throws "Failed to process telemedicine
\* request" and activeSessions is unchanged; when it succeeds the returned
\* sessionId is a key of activeSessions whose entry has status "active" and
\* the requesting userId.
C25_RegisteredOnSuccess ==
  [][\A c \in Clients :
       Pending(c, "processTelemedicineRequest") =>
         /\ sessionCalls[c].sessionId \notin DOMAIN activeSessions
         /\ Finished(c, "processTelemedicineRequest", "thrown") =>
               /\ sessionCalls'[c].message = "Failed to process telemedicine request"
               /\ activeSessions' = activeSessions
         /\ Finished(c, "processTelemedicineRequest", "returned") =>
               /\ sessionCalls'[c].sessionId = sessionCalls[c].sessionId
               /\ sessionCalls'[c].sessionId \in DOMAIN activeSessions'
               /\ activeSessions'[sessionCalls'[c].sessionId].status = "active"
               /\ activeSessions'[sessionCalls'[c].sessionId].userId =
                     sessionCalls[c].userId]_vars

C25_Witness ==
  \E c, d \in Clients :
    /\ sessionCalls[c].stage = "done"
    /\ sessionCalls[c].op = "processTelemedicineRequest"
    /\ sessionCalls[c].outcome = "returned"
    /\ sessionCalls[c].sessionId \in DOMAIN activeSessions
    /\ activeSessions[sessionCalls[c].sessionId] =
          [userId |-> "patient_1", status |-> "active", participants |-> Undefined]
    /\ sessionCalls[d].stage = "done"
    /\ sessionCalls[d].op = "processTelemedicineRequest"
    /\ sessionCalls[d].outcome = "thrown"
    /\ sessionCalls[d].sessionId \notin DOMAIN activeSessions

C27_ClosedOnceEnded ==
  [][\A id \in DOMAIN activeSessions :
       activeSessions[id].status = "ended" =>
         /\ id \in DOMAIN activeSessions'
         /\ activeSessions'[id].status = "ended"
         /\ participantsOf(activeSessions'[id]) = participantsOf(activeSessions[id])]_vars

(***************************************************************************)
(* Properties of POST /api/chat, under SpecChat.                           *)
(***************************************************************************)
\* C18: a chat request of context "diagnosis" is handled by the health
\* agent's processDiagnosis, "medication" by the medication agent's
\* processMedicationRequest, "telemedicine" by the telemedicine agent's
\* processTelemedicineRequest and any other context by the health agent's
\* processGeneralQuery; the handler has called a method the agent has; when
\* the processing succeeded the reply is {success: true, response}, and a
\* 500 {success: false} reply is given only when the processing failed.
C18_ChatDispatch ==
  chatCall # NoChat =>
    /\ chatCall.agent =
         (CASE chatRequest.context = "medication" -> "medicationAgent"
            [] chatRequest.context = "telemedicine" -> "telemedicineAgent"
            [] OTHER -> "healthAgent")
    /\ chatCall.method =
         (CASE chatRequest.context = "diagnosis" -> "processDiagnosis"
            [] chatRequest.context = "medication" -> "processMedicationRequest"
            [] chatRequest.context = "telemedicine" -> "processTelemedicineRequest"
            [] OTHER -> "processGeneralQuery")
    /\ chatCall.type \in {"pending", "succeeded", "failed"}
    /\ chatCall.type = "succeeded" =>
          (chatReply.status = 200 /\ chatReply.body.success)
    /\ (chatReply # NoResponse /\ chatReply.status = 500) =>
          (chatCall.type = "failed" /\ ~chatReply.body.success)

(***************************************************************************)
(* Properties of the socket handlers, under SpecSocket.                    *)
(***************************************************************************)
\* C19: after any sequence of socket events, a "healthUpdate" emitted for
\* userId U is delivered only to sockets that have sent join(U).
C19_HealthUpdateOnlyToJoined ==
  \A s \in Sockets :
    sockets[s].lastEvent.event = "healthUpdate" =>
      sockets[s].lastEvent.room \in sockets[s].joinSent

\* C24: the step that answers a health-monitor request emits "healthUpdate"
\* only if the analysis of the request succeeded, and then before the
\* success response, to the sockets of the room; when the analysis throws
\* the reply is 500 {success: false} and the step delivers nothing.
C24_EmitOnlyOnSuccess ==
  [][(monitor.type = "pending" /\ monitor'.type = "answered") =>
       IF analyzeCurrentVitalsThrows(monitor.vitalSigns)
       THEN /\ monitor'.reply.status = 500
            /\ monitor'.reply.body.success = FALSE
            /\ monitor'.effects = <<"json">>
            /\ sockets' = sockets
       ELSE /\ monitor'.reply.status = 200
            /\ monitor'.reply.body.success = TRUE
            /\ monitor'.effects = <<"emit", "json">>
            /\ \A s \in InRoom(sockets, monitor.userId) :
                 sockets'[s].lastEvent = [event |-> "healthUpdate", room |-> monitor.userId]]_vars

C24_Witness ==
  /\ monitor.type = "answered"
  /\ monitor.vitalSigns = Undefined
  /\ monitor.reply.status = 500
  /\ \E s \in InRoom(sockets, monitor.userId) :
        /\ monitor.userId \in sockets[s].joinSent
        /\ sockets[s].lastEvent.event # "healthUpdate"

C28_TypingCleared == isTyping ~> ~isTyping
=============================================================================
